---- MODULE Spec2Model ----
(***************************************************************************)
(* Model of the pricing engine of the inquiry tool: calculator.py          *)
(* (Calculator), ioss_fetcher.py (IossFetcher, GoogleSheetsIossSource)     *)
(* and models.py.                                                          *)
(*                                                                         *)
(* Python floats are modelled as exact rationals [n, d] in lowest terms,   *)
(* dicts and objects as functions from field names to values, Optional     *)
(* values as sequences of length 0 (None) or 1.                            *)
(***************************************************************************)
EXTENDS Integers, Sequences, FiniteSets, TLC

VARIABLES
    products,        \* the list of Product objects the caller holds
    destination_input, \* the destination country the caller passes
    shipping_rules,  \* Calculator.shipping_rules, the rule table
    ioss_sheet,      \* the rows of the IOSS sheet the data source reads
    source_ioss_rules, \* GoogleSheetsIossSource.ioss_rules, None until a load
    ioss_rules,      \* IossFetcher.ioss_rules: None until the lazy load
    candidates,      \* what find_applicable_shipping_rules returned last
    history,         \* one record per calculate_totals call, in call order
    fee_rule,        \* the tariff dict the fee calls below are made with
    fee_log,         \* one record per calculate_shipping_fee call
    match_log,       \* one record per find_applicable_shipping_rules call
    tax_log,         \* one record per calculate_total_ioss_tax call
    orders,          \* the list of Order objects of the invoice run
    invoice_log,     \* one record per invoice run
    selection_text_state, \* the rule show_selection stored, None if none
    shipping_sheet,  \* what the shipping sheet yields to a fetch
    sources,         \* the GoogleSheetsShippingSource objects created, each
                     \* with its shipping_rules (None until a load gets there)
    data_source_cache,    \* Calculator._data_source_cache: None or a source
    shipping_rules_cache, \* Calculator._shipping_rules_cache: None or a list
    load_calls,      \* the calls of load_rules made so far
    remote_loads,    \* the fetches of the sheet made so far
    constructions,   \* one record per Calculator construction that ended
    threads          \* per thread: where it is in Calculator.__init__, the
                     \* source it took and the list load_rules gave it

vars == <<products, destination_input, shipping_rules, ioss_sheet, source_ioss_rules, ioss_rules,
          candidates, history, fee_rule, fee_log, match_log, tax_log, orders,
          invoice_log, selection_text_state, shipping_sheet, sources,
          data_source_cache, shipping_rules_cache, load_calls, remote_loads,
          constructions, threads>>

\* the state of the rule loader and of the selection kept by the interface
loaderVars == <<shipping_sheet, sources, data_source_cache, shipping_rules_cache,
                load_calls, remote_loads, constructions, threads>>

---------------------------------------------------------------------------
(* Bounds of the model.                                                    *)

MaxItems == 2

MaxCalls == 2

MaxFeeCalls == 2

MaxWeightSteps == 8

MaxTaxCalls == 2

MaxMatchCalls == 2

MaxOrders == 3

MaxInvoiceRuns == 2

\* the Calculator constructions of a behaviour
MaxConstructions == 3

\* the calculate_totals calls of a behaviour that makes other calls too
MaxPricings == 1

---------------------------------------------------------------------------
(* Float arithmetic, as exact rational arithmetic.                         *)

Abs(i) == IF i < 0 THEN -i ELSE i

RECURSIVE Gcd(_, _)
Gcd(a, b) == IF b = 0 THEN a ELSE Gcd(b, a % b)

\* the rational n/d (d /= 0) in lowest terms with a positive denominator
Norm(n, d) ==
    LET g == Gcd(Abs(n), Abs(d))
        s == IF d < 0 THEN -1 ELSE 1
    IN  [n |-> (s * n) \div g, d |-> (s * d) \div g]

R(i) == [n |-> i, d |-> 1]

Zero == R(0)

RAdd(a, b) == Norm(a.n * b.d + b.n * a.d, a.d * b.d)

RSub(a, b) == Norm(a.n * b.d - b.n * a.d, a.d * b.d)

RMul(a, b) == Norm(a.n * b.n, a.d * b.d)

\* a / b for b /= 0; the callers raise ZeroDivisionError before using it
RDiv(a, b) == Norm(a.n * b.d, a.d * b.n)

RLe(a, b) == a.n * b.d <= b.n * a.d

RLt(a, b) == a.n * b.d < b.n * a.d

RMax(a, b) == IF RLt(a, b) THEN b ELSE a

\* a changed Ceil: int() in place of math.ceil, rounding down
CeilRoundsDown(a) == a.n \div a.d

\* math.ceil: the least integer not below a (\div rounds down)
Ceil(a) == -((-a.n) \div a.d)

\* round(x, 3): to the nearest multiple of 1/1000, halves to even
Round3(a) ==
    LET num  == a.n * 1000
        q    == num \div a.d
        rem2 == 2 * (num - q * a.d)
        up   == rem2 > a.d \/ (rem2 = a.d /\ q % 2 = 1)
    IN  Norm(IF up THEN q + 1 ELSE q, 1000)

\* round(x, 2): to the nearest multiple of 1/100, halves to even
Round2(a) ==
    LET num  == a.n * 100
        q    == num \div a.d
        rem2 == 2 * (num - q * a.d)
        up   == rem2 > a.d \/ (rem2 = a.d /\ q % 2 = 1)
    IN  Norm(IF up THEN q + 1 ELSE q, 100)

RECURSIVE RSum(_)
RSum(s) == IF s = <<>> THEN Zero ELSE RAdd(Head(s), RSum(Tail(s)))

---------------------------------------------------------------------------
(* Optional values and dicts.                                              *)

None == <<>>

Some(x) == <<x>>

\* the dict d without key k
Without(d, k) == [x \in DOMAIN d \ {k} |-> d[x]]

\* the dict d with d[k] = v
With(d, k, v) == [x \in DOMAIN d \cup {k} |-> IF x = k THEN v ELSE d[x]]

EmptyDict == [x \in {} |-> 0]

---------------------------------------------------------------------------
(* Calculator.calculate_shipping_fee (calculator.py 115-179).              *)

\* what a call that raised returns here: the exception's type, no value
Raised(kind) == [status |-> kind, fee |-> Zero, rule_info |-> EmptyDict]

\* the keys read with [] before the fee is computed (lines 136-143)
FeeFields ==
    {"country", "attribute", "region", "weight_min", "weight_max",
     "first_weight", "first_weight_fee", "additional_weight",
     "additional_weight_price", "registration_fee"}

\* the keys read with [] after the fee is computed (lines 160-161)
DeliveryFields == {"min_delivery_days", "max_delivery_days"}

\* dict.get(k, default)
Get(d, k, default) == IF k \in DOMAIN d THEN d[k] ELSE default

\* sum(product.quantity * product.weight for product in products)
SumActualWeight(prods) ==
    RSum([i \in 1..Len(prods) |-> RMul(prods[i].quantity, prods[i].weight)])

\* total_weight: the rule's own when it carries one, else re-derived
FeeWeight(prods, rule) ==
    IF "total_weight" \in DOMAIN rule
    THEN rule["total_weight"]
    ELSE SumActualWeight(prods)

\* math.ceil(remaining_weight / additional_weight)
AdditionalUnits(remaining_weight, additional_weight) ==
    Ceil(RDiv(remaining_weight, additional_weight))

\* a changed ShippingFee: the registration fee is left out of the branch
\* above the first weight
ShippingFeeWithoutRegistrationAboveFirstWeight(total_weight, rule) ==
    IF RLe(total_weight, rule["first_weight"])
    THEN RAdd(rule["first_weight_fee"], rule["registration_fee"])
    ELSE RAdd(rule["first_weight_fee"],
              RMul(R(AdditionalUnits(RSub(total_weight, rule["first_weight"]),
                                     rule["additional_weight"])),
                   rule["additional_weight_price"]))

\* lines 145-155, for a rule whose division is defined
ShippingFee(total_weight, rule) ==
    IF RLe(total_weight, rule["first_weight"])
    THEN RAdd(rule["first_weight_fee"], rule["registration_fee"])
    ELSE RAdd(RAdd(rule["first_weight_fee"],
                   RMul(R(AdditionalUnits(RSub(total_weight, rule["first_weight"]),
                                          rule["additional_weight"])),
                        rule["additional_weight_price"])),
              rule["registration_fee"])

\* a changed EstimatedDeliveryTime: one positive bound is enough
EstimatedDeliveryTimeIfEitherPositive(min_days, max_days) ==
    IF min_days > 0 \/ max_days > 0
    THEN <<min_days, "-", max_days, "days">>
    ELSE <<>>

\* the f-string "{min_days}-{max_days}<day sign>" as its pieces ("days" is
\* the one-character day sign U+5929 of the source), "" as no piece
EstimatedDeliveryTime(min_days, max_days) ==
    IF min_days > 0 /\ max_days > 0
    THEN <<min_days, "-", max_days, "days">>
    ELSE <<>>

RuleInfo(total_weight, rule) ==
    [shipping_company        |-> Get(rule, "shipping_company", ""),
     region                  |-> Get(rule, "region", ""),
     estimated_delivery_time |->
         EstimatedDeliveryTime(rule["min_delivery_days"], rule["max_delivery_days"]),
     min_delivery_days       |-> rule["min_delivery_days"],
     max_delivery_days       |-> rule["max_delivery_days"],
     first_weight            |-> rule["first_weight"],
     first_weight_fee        |-> rule["first_weight_fee"],
     additional_weight       |-> rule["additional_weight"],
     additional_weight_price |-> rule["additional_weight_price"],
     registration_fee        |-> rule["registration_fee"],
     actual_weight           |-> total_weight]

\* a changed calculate_shipping_fee: a rule without a unit charges no
\* excess instead of dividing by it
calculate_shipping_fee_without_unit(prods, rule) ==
    LET total_weight == FeeWeight(prods, rule)
    IN  IF ~(FeeFields \subseteq DOMAIN rule)
        THEN Raised("KeyError")
        ELSE IF ~(DeliveryFields \subseteq DOMAIN rule)
        THEN Raised("KeyError")
        ELSE [status    |-> "ok",
              fee       |-> IF rule["additional_weight"] = Zero
                            THEN RAdd(rule["first_weight_fee"], rule["registration_fee"])
                            ELSE ShippingFee(total_weight, rule),
              rule_info |-> RuleInfo(total_weight, rule)]

calculate_shipping_fee(prods, rule) ==
    LET total_weight == FeeWeight(prods, rule)
    IN  IF ~(FeeFields \subseteq DOMAIN rule)
        THEN Raised("KeyError")
        ELSE IF ~RLe(total_weight, rule["first_weight"])
                /\ rule["additional_weight"] = Zero
        THEN Raised("ZeroDivisionError")
        ELSE IF ~(DeliveryFields \subseteq DOMAIN rule)
        THEN Raised("KeyError")
        ELSE [status    |-> "ok",
              fee       |-> ShippingFee(total_weight, rule),
              rule_info |-> RuleInfo(total_weight, rule)]

---------------------------------------------------------------------------
(* Calculator.find_applicable_shipping_rules (calculator.py 35-113).       *)

\* str.lower() on the country names of the model
Lower(str) ==
    CASE str = "Germany" -> "germany"
      [] str = "France"  -> "france"
      [] str = "GERMANY" -> "germany"
      [] str = "Italy"   -> "italy"
      [] str = "ITALY"   -> "italy"
      [] OTHER           -> str

\* product.length and product.width and product.height
HasDimensions(p) == p.length /= Zero /\ p.width /= Zero /\ p.height /= Zero

ActualWeight(p) == RMul(p.quantity, p.weight)

\* (length * width * height / volume_weight_ratio) * quantity, else 0
VolumeWeight(p, volume_weight_ratio) ==
    IF HasDimensions(p)
    THEN RMul(RDiv(RMul(RMul(p.length, p.width), p.height), volume_weight_ratio),
              p.quantity)
    ELSE Zero

\* a changed ProductTotalWeight: the volumetric weight is never charged
ProductTotalWeightAlwaysActual(p, volume_weight_ratio) == ActualWeight(p)

\* product_total_weight
ProductTotalWeight(p, volume_weight_ratio) ==
    IF HasDimensions(p)
    THEN RMax(ActualWeight(p), VolumeWeight(p, volume_weight_ratio))
    ELSE ActualWeight(p)

\* a changed WithWeights: the loop fills in the item's total as well
WithWeightsAndTotal(p, volume_weight_ratio) ==
    [p EXCEPT !.actual_weight = ActualWeight(p),
              !.volume_weight = VolumeWeight(p, volume_weight_ratio),
              !.total = RMul(p.price, p.quantity)]

\* the first loop's writes on one product (lines 52, 60, 64)
WithWeights(p, volume_weight_ratio) ==
    [p EXCEPT !.actual_weight = ActualWeight(p),
              !.volume_weight = VolumeWeight(p, volume_weight_ratio)]

\* total_weight after the first loop
ShipmentWeight(prods, volume_weight_ratio) ==
    RSum([i \in 1..Len(prods) |-> ProductTotalWeight(prods[i], volume_weight_ratio)])

\* the source's tags, highest priority first: U+98DF U+54C1 (food),
\* U+7EAF U+7535 (pure electric), U+7279 U+8D27 (special),
\* U+5E26 U+7535 (electric), U+666E U+8D27 (general)
attribute_priority == <<"food", "pure_electric", "special", "electric", "general">>

\* a changed ChosenAttribute: the tag of the first item decides
ChosenAttributeOfFirstItem(prods) ==
    IF prods /= <<>> /\ \E k \in 1..Len(attribute_priority) :
                            attribute_priority[k] = prods[1].attribute
    THEN prods[1].attribute
    ELSE "general"

\* the for/else of lines 75-80
ChosenAttribute(prods) ==
    LET product_attributes == {prods[i].attribute : i \in 1..Len(prods)}
        hits == {k \in 1..Len(attribute_priority) :
                    attribute_priority[k] \in product_attributes}
    IN  IF hits = {}
        THEN "general"
        ELSE attribute_priority[CHOOSE k \in hits : \A j \in hits : k <= j]

\* a changed RuleApplies: a weight equal to weight_min is in the band
RuleAppliesFromWeightMin(rule, destination, attribute, total_weight) ==
    /\ Lower(rule.country) = Lower(destination)
    /\ Lower(rule.attribute) = Lower(attribute)
    /\ RLe(rule.weight_min, total_weight)
    /\ RLe(total_weight, rule.weight_max)

\* the filter of lines 86-89
RuleApplies(rule, destination, attribute, total_weight) ==
    /\ Lower(rule.country) = Lower(destination)
    /\ Lower(rule.attribute) = Lower(attribute)
    /\ RLt(rule.weight_min, total_weight)
    /\ RLe(total_weight, rule.weight_max)

\* one dict of the returned list (lines 97-113)
RuleSummary(i, rule, total_weight) ==
    [id                      |-> i,
     shipping_company        |-> rule.shipping_company,
     country                 |-> rule.country,
     attribute               |-> rule.attribute,
     region                  |-> rule.region,
     weight_min              |-> rule.weight_min,
     weight_max              |-> rule.weight_max,
     first_weight            |-> rule.first_weight,
     first_weight_fee        |-> Round3(rule.first_weight_fee),
     additional_weight       |-> rule.additional_weight,
     additional_weight_price |-> Round3(rule.additional_weight_price),
     min_delivery_days       |-> rule.min_delivery_days,
     max_delivery_days       |-> rule.max_delivery_days,
     registration_fee        |-> rule.registration_fee,
     total_weight            |-> total_weight]

\* returns the written products and the list of candidate dicts, with the
\* weight and the attribute the call logs (lines 69 and 82)
find_applicable_shipping_rules(prods, rules, destination, volume_weight_ratio) ==
    LET total_weight == ShipmentWeight(prods, volume_weight_ratio)
        attribute    == ChosenAttribute(prods)
        Applies(rule) == RuleApplies(rule, destination, attribute, total_weight)
        applicable_rules == SelectSeq(rules, Applies)
    IN  [products |-> [i \in 1..Len(prods) |->
                          WithWeights(prods[i], volume_weight_ratio)],
         total_weight |-> total_weight,
         attribute    |-> attribute,
         result   |-> [i \in 1..Len(applicable_rules) |->
                          RuleSummary(i - 1, applicable_rules[i], total_weight)]]

---------------------------------------------------------------------------
(* ioss_fetcher.py: GoogleSheetsIossSource.load_rules and IossFetcher.     *)
(* A sheet cell is [kind, value]: kind "number" (a plain number), "percent"*)
(* (the number followed by a percent sign), "blank" or "text".             *)

\* float(str(cell).replace('%', '').strip()) if the string is not empty
\* else 0.0: the percent sign is dropped and the number is kept as it is
ParseRate(cell) == IF cell.kind = "blank" THEN Zero ELSE cell.value

\* float() raises ValueError on such a row, and the row is skipped
RowIsValid(row) == row.vat_rate.kind /= "text" /\ row.service_rate.kind /= "text"

IossRuleOfRow(row) ==
    [country      |-> row.country,
     vat_rate     |-> ParseRate(row.vat_rate),
     service_rate |-> ParseRate(row.service_rate)]

\* GoogleSheetsIossSource.load_rules: the status, the list returned and the
\* source's own ioss_rules afterwards
load_ioss_rules(sheet, cached) ==
    IF cached /= None
    THEN [status |-> "ok", rules |-> cached[1], cached |-> cached]
    ELSE IF sheet = <<>>
    THEN [status |-> "ValueError", rules |-> <<>>, cached |-> None]
    ELSE LET valid  == SelectSeq(sheet, RowIsValid)
             loaded == [i \in 1..Len(valid) |-> IossRuleOfRow(valid[i])]
         IN  IF loaded = <<>>
             THEN [status |-> "ValueError", rules |-> <<>>, cached |-> Some(loaded)]
             ELSE [status |-> "ok", rules |-> loaded, cached |-> Some(loaded)]

\* IossFetcher._ensure_rules_loaded: the fetcher's and the source's lists
ensure_rules_loaded(fetcher_rules, sheet, cached) ==
    IF fetcher_rules /= None
    THEN [status |-> "ok", ioss_rules |-> fetcher_rules, cached |-> cached]
    ELSE LET l == load_ioss_rules(sheet, cached)
         IN  [status     |-> l.status,
              ioss_rules |-> IF l.status = "ok" THEN Some(l.rules) ELSE None,
              cached     |-> l.cached]

\* the loop of IossFetcher.get_ioss_rule over a loaded list: the first
\* rule of the country, or None
FirstIossRule(rules, country) ==
    LET hits == {i \in 1..Len(rules) : Lower(rules[i].country) = Lower(country)}
    IN  IF hits = {}
        THEN None
        ELSE Some(rules[CHOOSE i \in hits : \A j \in hits : i <= j])

get_ioss_rule(country, fetcher_rules, sheet, cached) ==
    LET e == ensure_rules_loaded(fetcher_rules, sheet, cached)
    IN  [status     |-> e.status,
         rule       |-> IF e.status = "ok"
                        THEN FirstIossRule(e.ioss_rules[1], country)
                        ELSE None,
         ioss_rules |-> e.ioss_rules,
         cached     |-> e.cached]

---------------------------------------------------------------------------
(* Calculator.calculate_total_ioss_tax (calculator.py 181-216).            *)

\* a changed TotalIossPrice: every item counts, whatever its ioss_price
TotalIossPriceOfAllItems(prods) ==
    RSum([i \in 1..Len(prods) |-> RMul(prods[i].ioss_price, prods[i].quantity)])

\* sum(ioss_price * quantity for the products with ioss_price > 0)
TotalIossPrice(prods) ==
    RSum([i \in 1..Len(prods) |->
            IF RLt(Zero, prods[i].ioss_price)
            THEN RMul(prods[i].ioss_price, prods[i].quantity)
            ELSE Zero])

IossInfo(total_ioss_price, ioss_rule) ==
    LET vat_tax     == RMul(total_ioss_price, ioss_rule.vat_rate)
        service_fee == RMul(total_ioss_price, ioss_rule.service_rate)
    IN  [vat_rate         |-> ioss_rule.vat_rate,
         service_rate     |-> ioss_rule.service_rate,
         vat_tax          |-> vat_tax,
         service_fee      |-> service_fee,
         total_ioss_tax   |-> RAdd(vat_tax, service_fee),
         total_ioss_price |-> total_ioss_price]

\* a changed calculate_total_ioss_tax: the rule is looked up before the
\* base is tested
TaxWithLookupFirst(prods, destination, fetcher_rules, sheet, cached) ==
    LET total_ioss_price == TotalIossPrice(prods)
        g == get_ioss_rule(destination, fetcher_rules, sheet, cached)
    IN  IF g.status /= "ok"
        THEN [status |-> g.status, tax |-> Zero, ioss_info |-> EmptyDict,
              ioss_rules |-> g.ioss_rules, cached |-> g.cached]
        ELSE IF RLe(total_ioss_price, Zero) \/ g.rule = None
        THEN [status |-> "ok", tax |-> Zero, ioss_info |-> EmptyDict,
              ioss_rules |-> g.ioss_rules, cached |-> g.cached]
        ELSE LET info == IossInfo(total_ioss_price, g.rule[1])
             IN  [status |-> "ok", tax |-> info.total_ioss_tax, ioss_info |-> info,
                  ioss_rules |-> g.ioss_rules, cached |-> g.cached]

\* a changed calculate_total_ioss_tax: a destination without a rule is an
\* error
TaxRaisesWithoutRule(prods, destination, fetcher_rules, sheet, cached) ==
    LET total_ioss_price == TotalIossPrice(prods)
        g == get_ioss_rule(destination, fetcher_rules, sheet, cached)
    IN  IF RLe(total_ioss_price, Zero)
        THEN [status |-> "ok", tax |-> Zero, ioss_info |-> EmptyDict,
              ioss_rules |-> fetcher_rules, cached |-> cached]
        ELSE IF g.status /= "ok"
        THEN [status |-> g.status, tax |-> Zero, ioss_info |-> EmptyDict,
              ioss_rules |-> g.ioss_rules, cached |-> g.cached]
        ELSE IF g.rule = None
        THEN [status |-> "ValueError", tax |-> Zero, ioss_info |-> EmptyDict,
              ioss_rules |-> g.ioss_rules, cached |-> g.cached]
        ELSE LET info == IossInfo(total_ioss_price, g.rule[1])
             IN  [status |-> "ok", tax |-> info.total_ioss_tax, ioss_info |-> info,
                  ioss_rules |-> g.ioss_rules, cached |-> g.cached]

\* the status, the tax and the info returned, and the fetcher's and the
\* source's lists afterwards
calculate_total_ioss_tax(prods, destination, fetcher_rules, sheet, cached) ==
    LET total_ioss_price == TotalIossPrice(prods)
        g == get_ioss_rule(destination, fetcher_rules, sheet, cached)
    IN  IF RLe(total_ioss_price, Zero)
        THEN [status |-> "ok", tax |-> Zero, ioss_info |-> EmptyDict,
              ioss_rules |-> fetcher_rules, cached |-> cached]
        ELSE IF g.status /= "ok"
        THEN [status |-> g.status, tax |-> Zero, ioss_info |-> EmptyDict,
              ioss_rules |-> g.ioss_rules, cached |-> g.cached]
        ELSE IF g.rule = None
        THEN [status |-> "ok", tax |-> Zero, ioss_info |-> EmptyDict,
              ioss_rules |-> g.ioss_rules, cached |-> g.cached]
        ELSE LET info == IossInfo(total_ioss_price, g.rule[1])
             IN  [status |-> "ok", tax |-> info.total_ioss_tax, ioss_info |-> info,
                  ioss_rules |-> g.ioss_rules, cached |-> g.cached]

---------------------------------------------------------------------------
(* Calculator.calculate_totals (calculator.py 218-260).                    *)

\* a changed NoProducts: the empty list is not answered before the rule
\* is validated
NoProductsNeverShortCircuits(prods) == FALSE

\* "if not products"
NoProducts(prods) == prods = <<>>

\* "if not selected_shipping_rules": None or the empty dict
NoRuleSelected(selected) == selected = None \/ DOMAIN selected[1] = {}

required_fields == {"shipping_company"}

\* lines 241-243: the total is computed only when none is there yet
BaseTotal(p) ==
    IF RLe(p.total, Zero) /\ RLt(Zero, p.price)
    THEN RMul(p.price, p.quantity)
    ELSE p.total

WithBaseTotal(p) == [p EXCEPT !.total = BaseTotal(p)]

\* a changed Apportioned: the shares are divided by the item's quantity
\* in place of the number of items
ApportionedByQuantity(p, total_shipping_fee, total_ioss_tax, n) ==
    LET shipping_fee == RDiv(total_shipping_fee, p.quantity)
        ioss_tax     == RDiv(total_ioss_tax, p.quantity)
    IN  With([p EXCEPT !.shipping_fee = shipping_fee,
                       !.total = RAdd(RAdd(p.total, shipping_fee), ioss_tax)],
             "ioss_tax", ioss_tax)

\* lines 254-256 on one product; ioss_tax is no field of Product and
\* becomes an attribute of the object here
Apportioned(p, total_shipping_fee, total_ioss_tax, n) ==
    LET shipping_fee == RDiv(total_shipping_fee, R(n))
        ioss_tax     == RDiv(total_ioss_tax, R(n))
    IN  With([p EXCEPT !.shipping_fee = shipping_fee,
                       !.total = RAdd(RAdd(p.total, shipping_fee), ioss_tax)],
             "ioss_tax", ioss_tax)

\* a changed TotalAmount: the tax is left out of the sum
TotalAmountWithoutTax(total_product_price, total_ioss_tax, total_shipping_fee) ==
    RAdd(total_product_price, total_shipping_fee)

\* line 250
TotalAmount(total_product_price, total_ioss_tax, total_shipping_fee) ==
    RAdd(RAdd(total_product_price, total_ioss_tax), total_shipping_fee)

\* a changed TotalsRaised: the base totals are written before the call
\* raises
TotalsRaisedAfterBaseTotals(kind, prods, fetcher_rules, cached) ==
    [status |-> kind, result |-> None, rule_info |-> EmptyDict,
     ioss_info |-> EmptyDict, shipping_fee |-> Zero, tax |-> Zero,
     products |-> [i \in 1..Len(prods) |-> WithBaseTotal(prods[i])],
     ioss_rules |-> fetcher_rules, cached |-> cached]

\* a call that raised: no result; the products and the fetcher as they
\* were left
TotalsRaised(kind, prods, fetcher_rules, cached) ==
    [status |-> kind, result |-> None, rule_info |-> EmptyDict,
     ioss_info |-> EmptyDict, shipping_fee |-> Zero, tax |-> Zero,
     products |-> prods, ioss_rules |-> fetcher_rules, cached |-> cached]

calculate_totals(prods, destination, selected, fetcher_rules, sheet, cached) ==
    IF NoProducts(prods)
    THEN [status |-> "ok",
          result |-> Some([products |-> <<>>, total_amount |-> Zero,
                           ioss_taxes |-> Zero]),
          rule_info |-> EmptyDict, ioss_info |-> EmptyDict,
          shipping_fee |-> Zero, tax |-> Zero,
          products |-> prods, ioss_rules |-> fetcher_rules, cached |-> cached]
    ELSE IF NoRuleSelected(selected)
    THEN TotalsRaised("ValueError", prods, fetcher_rules, cached)
    ELSE IF ~(required_fields \subseteq DOMAIN selected[1])
    THEN TotalsRaised("ValueError", prods, fetcher_rules, cached)
    ELSE LET f == calculate_shipping_fee(prods, selected[1])
             based == [i \in 1..Len(prods) |-> WithBaseTotal(prods[i])]
             total_product_price == RSum([i \in 1..Len(based) |-> based[i].total])
             t == calculate_total_ioss_tax(based, destination, fetcher_rules,
                                           sheet, cached)
             priced == [i \in 1..Len(based) |->
                          Apportioned(based[i], f.fee, t.tax, Len(based))]
         IN  IF f.status /= "ok"
             THEN TotalsRaised(f.status, prods, fetcher_rules, cached)
             ELSE IF t.status /= "ok"
             THEN TotalsRaised(t.status, based, t.ioss_rules, t.cached)
             ELSE [status |-> "ok",
                   result |-> Some([products |-> priced,
                                    total_amount |->
                                        TotalAmount(total_product_price, t.tax, f.fee),
                                    ioss_taxes |-> t.tax]),
                   rule_info |-> f.rule_info, ioss_info |-> t.ioss_info,
                   shipping_fee |-> f.fee, tax |-> t.tax,
                   products |-> priced, ioss_rules |-> t.ioss_rules,
                   cached |-> t.cached]

---------------------------------------------------------------------------
(* Calculator._group_orders_by_number, calculate_order_totals and          *)
(* create_invoices (calculator.py 262-386). An Order is a function from    *)
(* its attribute names to values; uniform_cost_price is no field of the    *)
(* dataclass, so an Order has it only when a caller has set it.            *)

\* the keys of the grouped dict, in the order of first appearance
GroupKeys(order_list) ==
    LET first == SelectSeq([i \in 1..Len(order_list) |-> i],
                           LAMBDA i : \A j \in 1..(i - 1) :
                              order_list[j].order_number /= order_list[i].order_number)
    IN  [k \in 1..Len(first) |-> order_list[first[k]].order_number]

\* grouped[order_number]
GroupOf(order_list, order_number) ==
    SelectSeq(order_list, LAMBDA o : o.order_number = order_number)

\* a changed LinePrice: the catalog price is preferred for a known SKU
LinePriceCatalogFirst(order, product_data) ==
    IF order.sku \in DOMAIN product_data
    THEN RMul(product_data[order.sku].price, R(order.quantity))
    ELSE IF RLt(Zero, order["uniform_cost_price"])
    THEN RMul(order["uniform_cost_price"], R(order.quantity))
    ELSE Zero

\* what one order adds to total_order_price (lines 311-319)
LinePrice(order, product_data) ==
    IF RLt(Zero, order["uniform_cost_price"])
    THEN RMul(order["uniform_cost_price"], R(order.quantity))
    ELSE IF order.sku \in DOMAIN product_data
    THEN RMul(product_data[order.sku].price, R(order.quantity))
    ELSE Zero

\* total_order_price of one group
TotalOrderPrice(order_list, product_data) ==
    RSum([i \in 1..Len(order_list) |-> LinePrice(order_list[i], product_data)])

\* lines 325-330
OrderIossCost(total_order_price, rule) ==
    IF RLt(Zero, total_order_price) /\ rule /= None
    THEN Round2(RMul(total_order_price, RAdd(rule[1].vat_rate, rule[1].service_rate)))
    ELSE Zero

OrderTotalsRaised(kind, fetcher_rules, cached) ==
    [status |-> kind, order_product_totals |-> EmptyDict,
     order_ioss_totals |-> EmptyDict, ioss_rules |-> fetcher_rules, cached |-> cached]

calculate_order_totals(order_list, product_data, fetcher_rules, sheet, cached) ==
    IF order_list = <<>>
    THEN [status |-> "ok", order_product_totals |-> EmptyDict,
          order_ioss_totals |-> EmptyDict, ioss_rules |-> fetcher_rules,
          cached |-> cached]
    ELSE LET base_country == order_list[1].country
             g == get_ioss_rule(base_country, fetcher_rules, sheet, cached)
             numbers == {order_list[i].order_number : i \in 1..Len(order_list)}
             totals == [n \in numbers |->
                          TotalOrderPrice(GroupOf(order_list, n), product_data)]
         IN  IF g.status /= "ok"
             THEN OrderTotalsRaised(g.status, g.ioss_rules, g.cached)
             ELSE IF \E i \in 1..Len(order_list) :
                        "uniform_cost_price" \notin DOMAIN order_list[i]
             THEN OrderTotalsRaised("AttributeError", g.ioss_rules, g.cached)
             ELSE [status |-> "ok",
                   order_product_totals |-> totals,
                   order_ioss_totals |-> [n \in numbers |-> OrderIossCost(totals[n], g.rule)],
                   ioss_rules |-> g.ioss_rules, cached |-> g.cached]

\* the fields of the Invoice dataclass (models.py 61-69)
InvoiceFields ==
    {"country", "order_number", "product_cost", "shipping_cost", "redelivery_cost",
     "total_charges"}

\* the keywords create_invoices passes to Invoice (lines 372-379)
InvoiceKeywords ==
    {"country", "order_number", "product_cost", "shipping_cost", "ioss_cost",
     "redelivery_cost"}

\* lines 362-369
ShippingCost(order_number, shipping_cost_map) ==
    IF order_number \notin DOMAIN shipping_cost_map
    THEN Zero
    ELSE IF RLt(shipping_cost_map[order_number], Zero)
    THEN Zero
    ELSE shipping_cost_map[order_number]

\* the Invoice of one group (lines 356-382)
InvoiceOf(order_number, order_list, order_totals, order_ioss_totals, shipping_cost_map) ==
    LET product_cost  == Get(order_totals, order_number, Zero)
        ioss_cost     == Get(order_ioss_totals, order_number, Zero)
        shipping_cost == ShippingCost(order_number, shipping_cost_map)
    IN  [country         |-> GroupOf(order_list, order_number)[1].country,
         order_number    |-> order_number,
         product_cost    |-> product_cost,
         shipping_cost   |-> shipping_cost,
         ioss_cost       |-> ioss_cost,
         redelivery_cost |-> Zero,
         total_charges   |-> RAdd(RAdd(RAdd(product_cost, shipping_cost), ioss_cost), Zero)]

create_invoices(order_list, order_totals, order_ioss_totals, shipping_cost_map) ==
    LET keys == GroupKeys(order_list)
    IN  IF keys = <<>>
        THEN [status |-> "ok", invoices |-> <<>>]
        ELSE IF ~(InvoiceKeywords \subseteq InvoiceFields)
        THEN [status |-> "TypeError", invoices |-> <<>>]
        ELSE [status   |-> "ok",
              invoices |-> [k \in 1..Len(keys) |->
                              InvoiceOf(keys[k], order_list, order_totals,
                                        order_ioss_totals, shipping_cost_map)]]

---------------------------------------------------------------------------
(* The inputs the model draws from.                                        *)

\* models.Product as the caller constructs it (models.py 3-19)
Product(sku, quantity, weight, attribute, side, price, ioss_price, total) ==
    [sku |-> sku, quantity |-> R(quantity), weight |-> R(weight),
     attribute |-> attribute,
     length |-> R(side), width |-> R(side), height |-> R(side),
     price |-> R(price), ioss_price |-> R(ioss_price), image_url |-> "",
     shipping_fee |-> Zero, total |-> R(total),
     actual_weight |-> Zero, volume_weight |-> Zero]

\* two pieces of 1000 g at price 10, no dimensions, no IOSS price
ItemA == Product("A", 2, 1000, "general", 0, 10, 0, 0)

\* a light, bulky, electric item: a cube of side 100 weighing 100 g
ItemB == Product("B", 1, 100, "electric", 100, 5, 8, 0)

\* an item whose total the caller has filled in already
ItemC == Product("C", 1, 500, "general", 0, 3, 4, 7)

\* an item whose price is not positive
ItemD == Product("D", 2, 500, "general", 0, -5, 0, 0)

ProductPool == {ItemA, ItemB, ItemC, ItemD}

\* the lists of at most n different elements of S
RECURSIVE ListsUpTo(_, _)
ListsUpTo(S, n) ==
    IF n = 0
    THEN {<<>>}
    ELSE LET shorter == ListsUpTo(S, n - 1)
         IN  shorter \cup UNION {{Append(q, x) :
                                     x \in {y \in S : \A i \in 1..Len(q) : q[i] /= y}} :
                                  q \in shorter}

ProductLists == ListsUpTo(ProductPool, MaxItems)

\* models.ShippingRule (models.py 21-36)
ShippingRule(company, attribute, country, weight_min, weight_max, first_weight, first_weight_fee, additional_weight, additional_weight_price, min_days, max_days, registration_fee) ==
    [shipping_company |-> company, attribute |-> attribute, country |-> country,
     region |-> "EU", weight_min |-> R(weight_min), weight_max |-> R(weight_max),
     first_weight |-> R(first_weight), first_weight_fee |-> first_weight_fee,
     additional_weight |-> R(additional_weight),
     additional_weight_price |-> R(additional_weight_price),
     min_delivery_days |-> min_days, max_delivery_days |-> max_days,
     registration_fee |-> R(registration_fee)]

\* the rule table the Calculator holds
ShippingTable ==
    <<ShippingRule("YunExpress", "general", "Germany", 0, 3000,
                   1000, R(15), 500, 5, 5, 10, 2),
      ShippingRule("4PX", "electric", "Germany", 0, 5000,
                   100, Norm(123456, 10000), 50, 3, 0, 0, 1),
      ShippingRule("DHL", "general", "Germany", 1000, 2000,
                   500, R(20), 0, 4, 3, 7, 0),
      ShippingRule("Colissimo", "general", "France", 0, 3000,
                   500, R(10), 250, 2, 4, 0, 3)>>

Destinations == {"germany", "France"}

VolumeWeightRatios == {R(5000), R(6000)}

Cell(kind, value) == [kind |-> kind, value |-> value]

\* a sheet with one row of plain numbers and one of percent cells
IossSheetRates ==
    <<[country |-> "Germany", vat_rate |-> Cell("number", Norm(1, 5)),
       service_rate |-> Cell("number", Norm(1, 20))],
      [country |-> "Italy", vat_rate |-> Cell("percent", R(22)),
       service_rate |-> Cell("blank", Zero)]>>

\* a sheet none of whose rows parses
IossSheetInvalid ==
    <<[country |-> "Germany", vat_rate |-> Cell("text", Zero),
       service_rate |-> Cell("number", Norm(1, 20))]>>

IossSheets == {IossSheetRates, IossSheetInvalid}

\* the first rule of the table as a dict, without a precomputed weight
TableRuleDict == Without(RuleSummary(0, ShippingTable[1], Zero), "total_weight")

\* what a caller may pass as selected_shipping_rules: nothing, an empty
\* dict, a rule of the table, a candidate as returned, or the first
\* candidate with one key missing
RuleChoices(cands) ==
    {None, Some(EmptyDict), Some(TableRuleDict)}
    \cup {Some(cands[i]) : i \in 1..Len(cands)}
    \cup {Some(Without(cands[i], k)) :
            i \in {j \in 1..Len(cands) : j = 1},
            k \in {"total_weight", "shipping_company", "country"}}

---------------------------------------------------------------------------
(* The rule loader and the class-level caches of Calculator.               *)

\* the threads that may construct a Calculator
Threads == {"t1", "t2"}

\* a thread that is not inside Calculator.__init__
IdleThread == [pc |-> "idle", data_source |-> None, loaded |-> None]

\* the class attributes as the class statement leaves them (calculator.py
\* 16-17): no data source, no rule list, nothing loaded or constructed
LoaderUntouched ==
    /\ shipping_sheet = <<>>
    /\ sources = <<>>
    /\ data_source_cache = None
    /\ shipping_rules_cache = None
    /\ load_calls = 0
    /\ remote_loads = 0
    /\ constructions = <<>>
    /\ threads = [t \in Threads |-> IdleThread]

---------------------------------------------------------------------------
(* The engine: one Calculator, one item list, any number of calls.         *)

Init ==
    /\ products \in ProductLists
    /\ destination_input \in Destinations
    /\ shipping_rules = ShippingTable
    /\ ioss_sheet \in IossSheets
    /\ source_ioss_rules = None
    /\ ioss_rules = None
    /\ candidates = <<>>
    /\ history = <<>>
    /\ fee_rule = EmptyDict
    /\ fee_log = <<>>
    /\ match_log = <<>>
    /\ tax_log = <<>>
    /\ orders = <<>>
    /\ invoice_log = <<>>
    /\ selection_text_state = None
    /\ LoaderUntouched

\* load_shipping_rules' call of the engine (main.py 68)
FindApplicable(volume_weight_ratio) ==
    \E r \in {find_applicable_shipping_rules(products, shipping_rules, destination_input,
                                             volume_weight_ratio)} :
        /\ products' = r.products
        /\ candidates' = r.result
        /\ UNCHANGED <<destination_input, shipping_rules, ioss_sheet, source_ioss_rules,
                       ioss_rules, history, fee_rule, fee_log, match_log, tax_log,
                       orders, invoice_log,
                   selection_text_state, loaderVars>>

\* check_pricing's call of the engine (main.py 166)
CalculateTotals(selected) ==
    /\ Len(history) < MaxCalls
    /\ \E c \in {calculate_totals(products, destination_input, selected, ioss_rules,
                                  ioss_sheet, source_ioss_rules)} :
        /\ products' = c.products
        /\ ioss_rules' = c.ioss_rules
        /\ source_ioss_rules' = c.cached
        /\ history' = Append(history,
                             [rule |-> selected,
                              before |-> products, after |-> c.products,
                              status |-> c.status, result |-> c.result,
                              rule_info |-> c.rule_info, ioss_info |-> c.ioss_info,
                              shipping_fee |-> c.shipping_fee, tax |-> c.tax,
                              table |-> c.ioss_rules])
    /\ UNCHANGED <<destination_input, shipping_rules, ioss_sheet, candidates, fee_rule,
                   fee_log, match_log, tax_log, orders, invoice_log,
                   selection_text_state, loaderVars>>

Next ==
    \/ \E ratio \in VolumeWeightRatios : FindApplicable(ratio)
    \/ \E selected \in RuleChoices(candidates) : CalculateTotals(selected)

Spec == Init /\ [][Next]_vars

---------------------------------------------------------------------------
(* Calls of calculate_shipping_fee alone, each logged with its rule.       *)

CalculateShippingFee(rule) ==
    /\ Len(fee_log) < MaxFeeCalls
    /\ \E f \in {calculate_shipping_fee(products, rule)} :
        fee_log' = Append(fee_log, [rule |-> rule, status |-> f.status,
                                    fee |-> f.fee, rule_info |-> f.rule_info])
    /\ UNCHANGED <<products, destination_input, shipping_rules, ioss_sheet,
                   source_ioss_rules, ioss_rules, candidates, history, fee_rule,
                   match_log, tax_log, orders, invoice_log,
                   selection_text_state, loaderVars>>

\* the candidates as returned, and each without its total_weight
FeeRuleChoices(cands) ==
    {cands[i] : i \in 1..Len(cands)}
    \cup {Without(cands[i], "total_weight") : i \in 1..Len(cands)}

NextRules ==
    \/ \E ratio \in VolumeWeightRatios : FindApplicable(ratio)
    \/ \E rule \in FeeRuleChoices(candidates) : CalculateShippingFee(rule)

\* rule matching followed by fee calls on the candidates
SpecRules == Init /\ [][NextRules]_vars

---------------------------------------------------------------------------
(* The fee function on its own: one tiered tariff, many weights.           *)

\* a tiered rule as a dict without total_weight
Tariff(first_weight, first_weight_fee, additional_weight, additional_weight_price, registration_fee) ==
    Without(RuleSummary(0, ShippingRule("T", "general", "Germany", 0, 3000,
                                        first_weight, R(first_weight_fee),
                                        additional_weight, additional_weight_price,
                                        5, 10, registration_fee),
                        Zero),
            "total_weight")

TariffPool ==
    {Tariff(fw, 15, aw, awp, reg) :
        fw \in {500, 1000}, aw \in {0, 300, 500}, awp \in {-1, 0, 5}, reg \in {0, 2}}

\* multiples of 250 g, and half a gram above the first weight
FeeWeights(rule) ==
    {R(250 * k) : k \in 0..MaxWeightSteps}
    \cup {RAdd(rule["first_weight"], Norm(1, 2))}

InitFee ==
    /\ products = <<ItemA>>
    /\ destination_input = "germany"
    /\ shipping_rules = ShippingTable
    /\ ioss_sheet = IossSheetRates
    /\ source_ioss_rules = None
    /\ ioss_rules = None
    /\ candidates = <<>>
    /\ history = <<>>
    /\ fee_rule \in TariffPool
    /\ fee_log = <<>>
    /\ match_log = <<>>
    /\ tax_log = <<>>
    /\ orders = <<>>
    /\ invoice_log = <<>>
    /\ selection_text_state = None
    /\ LoaderUntouched

NextFee ==
    \/ \E w \in FeeWeights(fee_rule) :
          CalculateShippingFee(With(fee_rule, "total_weight", w))
    \/ CalculateShippingFee(fee_rule)

SpecFee == InitFee /\ [][NextFee]_vars

---------------------------------------------------------------------------
(* The fee function on rules of either tariff shape and with any delivery  *)
(* bounds.                                                                 *)

\* the tiered tariff with its delivery bounds replaced
DeliveryTariff(min_days, max_days) ==
    With(With(Tariff(1000, 15, 500, 5, 2), "min_delivery_days", min_days),
         "max_delivery_days", max_days)

DeliveryTariffs ==
    {DeliveryTariff(min_days, max_days) : min_days \in {-1, 0, 3}, max_days \in {-2, 0, 7}}

\* a rule of the rate-times-weight shape: a minimum charge weight and a
\* rate per gram, and none of the first-weight fields
RateTariff(min_charge_weight, rate_per_unit, registration_fee) ==
    [shipping_company  |-> "R", country |-> "Germany", attribute |-> "general",
     region            |-> "EU", weight_min |-> Zero, weight_max |-> R(3000),
     min_charge_weight |-> R(min_charge_weight),
     rate_per_unit     |-> rate_per_unit,
     min_delivery_days |-> 5, max_delivery_days |-> 10,
     registration_fee  |-> R(registration_fee)]

RateTariffs == {RateTariff(500, Norm(1, 50), 2), RateTariff(0, Norm(3, 100), 0)}

TariffWeights == {R(250 * k) : k \in 0..MaxWeightSteps}

InitTariffs ==
    /\ products = <<ItemA>>
    /\ destination_input = "germany"
    /\ shipping_rules = ShippingTable
    /\ ioss_sheet = IossSheetRates
    /\ source_ioss_rules = None
    /\ ioss_rules = None
    /\ candidates = <<>>
    /\ history = <<>>
    /\ fee_rule \in DeliveryTariffs \cup RateTariffs
    /\ fee_log = <<>>
    /\ match_log = <<>>
    /\ tax_log = <<>>
    /\ orders = <<>>
    /\ invoice_log = <<>>
    /\ selection_text_state = None
    /\ LoaderUntouched

NextTariffs ==
    \/ \E w \in TariffWeights : CalculateShippingFee(With(fee_rule, "total_weight", w))
    \/ CalculateShippingFee(fee_rule)

SpecTariffs == InitTariffs /\ [][NextTariffs]_vars

---------------------------------------------------------------------------
(* Calls of find_applicable_shipping_rules alone on one item list, each    *)
(* logged with its arguments, what it wrote and what it returned.          *)

\* three pieces of food in a small box: 600 g, 0.6 g by volume at 5000
ItemF == Product("F", 3, 200, "food", 10, 4, 0, 0)

\* an item with a length and a width and no height
ItemG == [Product("G", 1, 300, "general", 100, 2, 0, 0) EXCEPT !.height = Zero]

ItemP == Product("P", 1, 300, "pure_electric", 0, 9, 0, 0)

ItemS == Product("S", 2, 400, "special", 0, 7, 0, 0)

\* an item whose tag is none of the five
ItemU == Product("U", 1, 50, "liquid", 0, 1, 0, 0)

MatchProductPool == {ItemA, ItemB, ItemF, ItemG, ItemP, ItemS, ItemU}

MatchProductLists == ListsUpTo(MatchProductPool, MaxItems)

\* the table with a band that starts at 2000 g, a rule whose country is
\* written in capitals and a rule for food
MatchTable ==
    ShippingTable \o
    <<ShippingRule("UPS", "general", "Germany", 2000, 5000,
                   1000, R(30), 500, 6, 2, 4, 0),
      ShippingRule("GLS", "general", "GERMANY", 0, 2000,
                   1000, R(9), 500, 2, 6, 9, 0),
      ShippingRule("FoodEx", "food", "Germany", 0, 3000,
                   500, R(25), 500, 8, 2, 3, 1)>>

MatchDestinations == {"germany", "France", "Spain"}

InitMatch ==
    /\ products \in MatchProductLists
    /\ destination_input = "germany"
    /\ shipping_rules = MatchTable
    /\ ioss_sheet = IossSheetRates
    /\ source_ioss_rules = None
    /\ ioss_rules = None
    /\ candidates = <<>>
    /\ history = <<>>
    /\ fee_rule = EmptyDict
    /\ fee_log = <<>>
    /\ match_log = <<>>
    /\ tax_log = <<>>
    /\ orders = <<>>
    /\ invoice_log = <<>>
    /\ selection_text_state = None
    /\ LoaderUntouched

FindRules(destination, volume_weight_ratio) ==
    /\ Len(match_log) < MaxMatchCalls
    /\ \E r \in {find_applicable_shipping_rules(products, shipping_rules, destination,
                                                volume_weight_ratio)} :
        /\ products' = r.products
        /\ candidates' = r.result
        /\ match_log' = Append(match_log,
                               [before |-> products, destination |-> destination,
                                volume_weight_ratio |-> volume_weight_ratio,
                                after |-> r.products, result |-> r.result,
                                total_weight |-> r.total_weight,
                                attribute |-> r.attribute])
    /\ UNCHANGED <<destination_input, shipping_rules, ioss_sheet, source_ioss_rules,
                   ioss_rules, history, fee_rule, fee_log, tax_log, orders,
                   invoice_log,
                   selection_text_state, loaderVars>>

NextMatch ==
    \E destination \in MatchDestinations, ratio \in VolumeWeightRatios :
        FindRules(destination, ratio)

SpecMatch == InitMatch /\ [][NextMatch]_vars

---------------------------------------------------------------------------
(* Calls of calculate_total_ioss_tax alone on one item list, each logged   *)
(* with the fetcher's table before and after it.                           *)

\* an item with a negative IOSS price
ItemN == Product("N", 3, 200, "general", 0, 6, -2, 0)

\* two pieces with an IOSS price of 3 each
ItemQ == Product("Q", 2, 300, "general", 0, 6, 3, 0)

TaxProductPool == {ItemA, ItemB, ItemN, ItemQ}

TaxProductLists == ListsUpTo(TaxProductPool, MaxItems)

TaxDestinations == {"germany", "France", "ITALY"}

InitTax ==
    /\ products \in TaxProductLists
    /\ destination_input = "germany"
    /\ shipping_rules = ShippingTable
    /\ ioss_sheet \in IossSheets
    /\ source_ioss_rules = None
    /\ ioss_rules = None
    /\ candidates = <<>>
    /\ history = <<>>
    /\ fee_rule = EmptyDict
    /\ fee_log = <<>>
    /\ match_log = <<>>
    /\ tax_log = <<>>
    /\ orders = <<>>
    /\ invoice_log = <<>>
    /\ selection_text_state = None
    /\ LoaderUntouched

CalculateTax(destination) ==
    /\ Len(tax_log) < MaxTaxCalls
    /\ \E t \in {calculate_total_ioss_tax(products, destination, ioss_rules, ioss_sheet,
                                          source_ioss_rules)} :
        /\ ioss_rules' = t.ioss_rules
        /\ source_ioss_rules' = t.cached
        /\ tax_log' = Append(tax_log,
                             [destination |-> destination, status |-> t.status,
                              tax |-> t.tax, ioss_info |-> t.ioss_info,
                              table_before |-> ioss_rules,
                              table_after |-> t.ioss_rules,
                              source_before |-> source_ioss_rules,
                              source_after |-> t.cached])
    /\ UNCHANGED <<products, destination_input, shipping_rules, ioss_sheet, candidates,
                   history, fee_rule, fee_log, match_log, orders, invoice_log,
                   selection_text_state, loaderVars>>

NextTax == \E destination \in TaxDestinations : CalculateTax(destination)

SpecTax == InitTax /\ [][NextTax]_vars

---------------------------------------------------------------------------
(* Invoice runs on one order list: calculate_order_totals, then            *)
(* create_invoices on what it returned.                                    *)

\* models.Order (models.py 45-59)
Order(order_number, sku, quantity) ==
    [order_number |-> order_number, order_status |-> "paid", order_note |-> "",
     payment_time |-> "", country_code |-> "DE", country |-> "Germany",
     product_name |-> "", shop_name |-> "", sku |-> sku, combination_sku |-> "",
     quantity |-> quantity, total_weight |-> Zero]

\* an Order on which a caller has set uniform_cost_price
OrderWithCost(order_number, sku, quantity, uniform_cost_price) ==
    With(Order(order_number, sku, quantity), "uniform_cost_price", uniform_cost_price)

\* an order line of another country
OrderFrom(country, order_number, sku, quantity, uniform_cost_price) ==
    [OrderWithCost(order_number, sku, quantity, uniform_cost_price)
        EXCEPT !.country = country]

\* lines of the catalog SKUs A (10) and B (5) and of the unknown SKU Z,
\* with and without a positive uniform cost price
OrderPool ==
    {OrderWithCost("A1", "A", 2, R(0)),
     OrderWithCost("A1", "B", 1, R(4)),
     OrderWithCost("B2", "B", 3, R(0)),
     OrderWithCost("B2", "Z", 2, R(0)),
     OrderWithCost("B2", "A", 1, Norm(401, 100)),
     OrderWithCost("a1", "Z", 1, R(0)),
     OrderFrom("France", "C3", "A", 1, R(0)),
     Order("A1", "A", 1)}

OrderLists == ListsUpTo(OrderPool, MaxOrders)

\* what load_product_data returns: the price of each known SKU
ProductData == [sku \in {"A", "B"} |-> [price |-> IF sku = "A" THEN R(10) ELSE R(5)]]

\* the shipping cost of each order number: none known, or one negative
ShippingCostMaps ==
    {EmptyDict,
     [n \in {"A1", "B2"} |-> IF n = "A1" THEN R(12) ELSE R(-3)]}

InitOrders ==
    /\ products = <<>>
    /\ destination_input = "germany"
    /\ shipping_rules = ShippingTable
    /\ ioss_sheet = IossSheetRates
    /\ source_ioss_rules = None
    /\ ioss_rules = None
    /\ candidates = <<>>
    /\ history = <<>>
    /\ fee_rule = EmptyDict
    /\ fee_log = <<>>
    /\ match_log = <<>>
    /\ tax_log = <<>>
    /\ orders \in OrderLists
    /\ invoice_log = <<>>
    /\ selection_text_state = None
    /\ LoaderUntouched

\* process_results (excel_processor.py 37-48): a new Calculator, whose
\* IOSS fetcher has loaded nothing yet
InvoiceRun(shipping_cost_map) ==
    /\ Len(invoice_log) < MaxInvoiceRuns
    /\ \E t \in {calculate_order_totals(orders, ProductData, None, ioss_sheet, None)} :
        \E v \in {IF t.status = "ok"
                  THEN create_invoices(orders, t.order_product_totals,
                                       t.order_ioss_totals, shipping_cost_map)
                  ELSE [status |-> t.status, invoices |-> <<>>]} :
            invoice_log' = Append(invoice_log,
                                  [shipping_cost_map |-> shipping_cost_map,
                                   totals_status |-> t.status,
                                   order_totals |-> t.order_product_totals,
                                   order_ioss_totals |-> t.order_ioss_totals,
                                   status |-> v.status,
                                   invoices |-> v.invoices])
    /\ UNCHANGED <<products, destination_input, shipping_rules, ioss_sheet,
                   source_ioss_rules, ioss_rules, candidates, history, fee_rule,
                   fee_log, match_log, tax_log, orders,
                   selection_text_state, loaderVars>>

NextOrders == \E shipping_cost_map \in ShippingCostMaps : InvoiceRun(shipping_cost_map)

SpecOrders == InitOrders /\ [][NextOrders]_vars

---------------------------------------------------------------------------
(* Constructions of Calculator: Calculator.__init__ (calculator.py 19-33)  *)
(* and GoogleSheetsShippingSource.load_rules (shipping_fetcher.py 57-155), *)
(* one step per statement a thread switch can separate.                    *)

\* the fields of the ShippingRule dataclass (models.py 21-36)
ShippingRuleFields ==
    {"shipping_company", "attribute", "country", "region", "weight_min",
     "weight_max", "first_weight", "first_weight_fee", "additional_weight",
     "additional_weight_price", "min_delivery_days", "max_delivery_days",
     "registration_fee"}

\* the keywords load_rules passes to ShippingRule (shipping_fetcher.py
\* 118-133)
ShippingRuleKeywords == ShippingRuleFields \cup {"volume_weight_ratio"}

\* the columns load_rules requires of the first record (shipping_fetcher.py
\* 76-92), named by the keyword each one feeds
RequiredColumns == ShippingRuleKeywords

\* a record of the sheet with every required column
SheetRow(company) ==
    [c \in RequiredColumns |-> IF c = "shipping_company" THEN company ELSE "1"]

\* what the sheet may yield to a fetch: an error, no record, records
\* without the ratio column, one record, two records
ShippingSheets ==
    {"unreachable", <<>>,
     <<Without(SheetRow("YunExpress"), "volume_weight_ratio")>>,
     <<SheetRow("YunExpress")>>,
     <<SheetRow("YunExpress"), SheetRow("DHL")>>}

\* the rule a record gives (shipping_fetcher.py 117-136): the constructor
\* raises TypeError on a keyword that is no field, the row is skipped
RowRule(row) ==
    IF ShippingRuleKeywords \subseteq ShippingRuleFields
    THEN Some([f \in ShippingRuleFields |-> row[f]])
    ELSE None

\* the rules of the records that gave one, in order (shipping_fetcher.py
\* 98-136)
RECURSIVE RowRules(_)
RowRules(data) ==
    IF data = <<>> THEN <<>>
    ELSE RowRule(data[1]) \o RowRules(Tail(data))

\* the record of a construction that ended
Construction(t, status, rules) ==
    [thread |-> t, status |-> status, shipping_rules |-> rules,
     data_source |-> threads[t].data_source]

\* a thread moves to a statement
Goto(t, pc) == threads' = [threads EXCEPT ![t].pc = pc]

\* __init__ raises out of load_rules: no instance, the thread is free again
Raise(t, status) ==
    /\ constructions' = Append(constructions, Construction(t, status, None))
    /\ threads' = [threads EXCEPT ![t] = IdleThread]

\* a constructor that calls load_rules whatever the class holds
NeedsLoadAlways(cache) == TRUE

\* whether __init__ has to call load_rules (calculator.py 28)
NeedsLoad(cache) == cache = None

\* a thread calls Calculator(config) (calculator.py 19-20)
Begin(t) ==
    /\ threads[t].pc = "idle"
    /\ Len(constructions) + Cardinality({u \in Threads : threads[u].pc /= "idle"})
          < MaxConstructions
    /\ Goto(t, "check_source")
    /\ UNCHANGED <<sources, data_source_cache, shipping_rules_cache,
                   load_calls, remote_loads, constructions>>

\* calculator.py 23: the test of _data_source_cache
CheckSource(t) ==
    /\ threads[t].pc = "check_source"
    /\ Goto(t, IF data_source_cache = None THEN "make_source" ELSE "take_source")
    /\ UNCHANGED <<sources, data_source_cache, shipping_rules_cache,
                   load_calls, remote_loads, constructions>>

\* calculator.py 24: a new source, its shipping_rules None
\* (shipping_fetcher.py 20-38), is stored in the class
MakeSource(t) ==
    /\ threads[t].pc = "make_source"
    /\ sources' = Append(sources, [shipping_rules |-> None])
    /\ data_source_cache' = Some(Len(sources) + 1)
    /\ Goto(t, "take_source")
    /\ UNCHANGED <<shipping_rules_cache, load_calls, remote_loads, constructions>>

\* calculator.py 25: self.data_source
TakeSource(t) ==
    /\ threads[t].pc = "take_source"
    /\ threads' = [threads EXCEPT ![t].pc = "check_rules",
                                  ![t].data_source = data_source_cache]
    /\ UNCHANGED <<sources, data_source_cache, shipping_rules_cache,
                   load_calls, remote_loads, constructions>>

\* calculator.py 28: the test of _shipping_rules_cache
CheckRules(t) ==
    /\ threads[t].pc = "check_rules"
    /\ Goto(t, IF NeedsLoad(shipping_rules_cache) THEN "load_rules" ELSE "take_rules")
    /\ UNCHANGED <<sources, data_source_cache, shipping_rules_cache,
                   load_calls, remote_loads, constructions>>

\* calculator.py 29, shipping_fetcher.py 59-60: load_rules is entered and
\* answers at once if the source has a list
LoadEnter(t) ==
    /\ threads[t].pc = "load_rules"
    /\ load_calls' = load_calls + 1
    /\ \E source \in {sources[threads[t].data_source[1]]} :
        threads' = IF source.shipping_rules /= None
                   THEN [threads EXCEPT ![t].pc = "store_rules",
                                        ![t].loaded = source.shipping_rules]
                   ELSE [threads EXCEPT ![t].pc = "fetch"]
    /\ UNCHANGED <<sources, data_source_cache, shipping_rules_cache,
                   remote_loads, constructions>>

\* shipping_fetcher.py 62-95, 144-155: the sheet is fetched; an error of
\* the fetch, no record or a missing column is raised
Fetch(t) ==
    /\ threads[t].pc = "fetch"
    /\ remote_loads' = remote_loads + 1
    /\ IF shipping_sheet = "unreachable"
       THEN Raise(t, "APIError")
       ELSE IF shipping_sheet = <<>>
       THEN Raise(t, "ValueError")
       ELSE IF ~(RequiredColumns \subseteq DOMAIN shipping_sheet[1])
       THEN Raise(t, "ValueError")
       ELSE /\ Goto(t, "parse")
            /\ UNCHANGED constructions
    /\ UNCHANGED <<sources, data_source_cache, shipping_rules_cache, load_calls>>

\* shipping_fetcher.py 97-142: the source's list is set to the rules of
\* the records; an empty list is raised, any other is returned
Parse(t) ==
    /\ threads[t].pc = "parse"
    /\ \E rules \in {RowRules(shipping_sheet)} :
        /\ sources' = [sources EXCEPT ![threads[t].data_source[1]].shipping_rules =
                                          Some(rules)]
        /\ IF rules = <<>>
           THEN Raise(t, "ValueError")
           ELSE /\ threads' = [threads EXCEPT ![t].pc = "store_rules",
                                              ![t].loaded = Some(rules)]
                /\ UNCHANGED constructions
    /\ UNCHANGED <<data_source_cache, shipping_rules_cache, load_calls, remote_loads>>

\* calculator.py 29: what load_rules returned is stored in the class
StoreRules(t) ==
    /\ threads[t].pc = "store_rules"
    /\ shipping_rules_cache' = threads[t].loaded
    /\ Goto(t, "take_rules")
    /\ UNCHANGED <<sources, data_source_cache, load_calls, remote_loads,
                   constructions>>

\* calculator.py 30-33: self.shipping_rules; the construction ends
TakeRules(t) ==
    /\ threads[t].pc = "take_rules"
    /\ constructions' = Append(constructions,
                               Construction(t, "ok", shipping_rules_cache))
    /\ threads' = [threads EXCEPT ![t] = IdleThread]
    /\ UNCHANGED <<sources, data_source_cache, shipping_rules_cache,
                   load_calls, remote_loads>>

\* one statement of __init__ by one thread; the engine's table is that of
\* the instance made last
Construct(t) ==
    /\ \/ Begin(t)
       \/ CheckSource(t)
       \/ MakeSource(t)
       \/ TakeSource(t)
       \/ CheckRules(t)
       \/ LoadEnter(t)
       \/ Fetch(t)
       \/ Parse(t)
       \/ StoreRules(t)
       \/ TakeRules(t)
    /\ shipping_rules' = IF Len(constructions') > Len(constructions)
                            /\ constructions'[Len(constructions')].status = "ok"
                         THEN constructions'[Len(constructions')].shipping_rules[1]
                         ELSE shipping_rules
    /\ UNCHANGED <<products, destination_input, ioss_sheet, source_ioss_rules,
                   ioss_rules, candidates, history, fee_rule, fee_log, match_log,
                   tax_log, orders, invoice_log, selection_text_state,
                   shipping_sheet>>

\* whether a Calculator exists
Constructed == \E i \in 1..Len(constructions) : constructions[i].status = "ok"

InitLoad ==
    /\ products = <<ItemA>>
    /\ destination_input = "germany"
    /\ shipping_rules = <<>>
    /\ ioss_sheet = IossSheetRates
    /\ source_ioss_rules = None
    /\ ioss_rules = None
    /\ candidates = <<>>
    /\ history = <<>>
    /\ fee_rule = EmptyDict
    /\ fee_log = <<>>
    /\ match_log = <<>>
    /\ tax_log = <<>>
    /\ orders = <<>>
    /\ invoice_log = <<>>
    /\ selection_text_state = None
    /\ shipping_sheet \in ShippingSheets
    /\ sources = <<>>
    /\ data_source_cache = None
    /\ shipping_rules_cache = None
    /\ load_calls = 0
    /\ remote_loads = 0
    /\ constructions = <<>>
    /\ threads = [t \in Threads |-> IdleThread]

\* the engine's operations on the instance made last
EngineCall ==
    /\ Constructed
    /\ \A t \in Threads : threads[t].pc = "idle"
    /\ \/ \E ratio \in VolumeWeightRatios : FindRules(destination_input, ratio)
       \/ CalculateShippingFee(TableRuleDict)
       \/ /\ Len(history) < MaxPricings
          /\ CalculateTotals(Some(TableRuleDict))

NextLoad ==
    \/ Construct("t1")
    \/ EngineCall

\* constructions one after another in one thread, engine calls between
SpecLoad == InitLoad /\ [][NextLoad]_vars

NextRace == \E t \in Threads : Construct(t)

\* constructions by two threads, their statements interleaved
SpecRace == InitLoad /\ [][NextRace]_vars

---------------------------------------------------------------------------
(* Rules whose additional_weight is 0, the value safe_float gives for an   *)
(* empty or "-" cell (shipping_fetcher.py 102-108): fee calls and          *)
(* calculate_totals calls at weights on both sides of the first weight.    *)

ZeroUnitTariffs ==
    {Tariff(fw, 15, 0, awp, reg) : fw \in {500, 1000}, awp \in {0, 5}, reg \in {0, 2}}

\* nothing, the first weight, half a gram above it and 250 g above it
ZeroUnitWeights(rule) ==
    {Zero, rule["first_weight"], RAdd(rule["first_weight"], Norm(1, 2)),
     RAdd(rule["first_weight"], R(250))}

InitZeroUnit ==
    /\ products = <<ItemA>>
    /\ destination_input = "germany"
    /\ shipping_rules = ShippingTable
    /\ ioss_sheet = IossSheetRates
    /\ source_ioss_rules = None
    /\ ioss_rules = None
    /\ candidates = <<>>
    /\ history = <<>>
    /\ fee_rule \in ZeroUnitTariffs
    /\ fee_log = <<>>
    /\ match_log = <<>>
    /\ tax_log = <<>>
    /\ orders = <<>>
    /\ invoice_log = <<>>
    /\ selection_text_state = None
    /\ LoaderUntouched

NextZeroUnit ==
    \/ \E w \in ZeroUnitWeights(fee_rule) :
          CalculateShippingFee(With(fee_rule, "total_weight", w))
    \/ \E w \in ZeroUnitWeights(fee_rule) :
          /\ Len(history) < MaxPricings
          /\ CalculateTotals(Some(With(fee_rule, "total_weight", w)))

SpecZeroUnit == InitZeroUnit /\ [][NextZeroUnit]_vars

---------------------------------------------------------------------------
(* The handlers of the pricing tab (main.py 33-110, 142-177) on the states *)
(* the interface keeps between events (main.py 221-223): products is       *)
(* products_state, candidates holds the items of id_map_state in the order *)
(* of the choices, selection_text_state the rule show_selection stored.    *)

\* the lists fetch_product_data may give load_products: 2000 g, 1000 g and
\* 3000 g of general goods
UIProductLists == {<<ItemA>>, <<ItemD>>, <<ItemA, ItemD>>}

\* the ids the checkbox group may hand to show_selection: none, one of the
\* choices, or two of them in either order
SelectedIds(cands) ==
    {<<>>} \cup {<<i>> : i \in 1..Len(cands)}
    \cup {s \in [1..2 -> 1..Len(cands)] : s[1] /= s[2]}

\* load_products (main.py 33-52): nothing parsed keeps the state, else the
\* fetched list replaces it; no other state is an output of the event
\* (main.py 241)
LoadProducts(updated_products) ==
    /\ products' = IF updated_products = <<>> THEN products ELSE updated_products
    /\ UNCHANGED <<destination_input, shipping_rules, ioss_sheet, source_ioss_rules,
                   ioss_rules, candidates, history, fee_rule, fee_log, match_log,
                   tax_log, orders, invoice_log, selection_text_state, loaderVars>>

\* load_shipping_rules (main.py 54-87): no candidates without products,
\* else those of find_applicable_shipping_rules; the checkbox group is set
\* to no choice, whose change event stores what show_selection returns for
\* an empty choice (main.py 90-91, 230-234)
LoadShippingRules(volume_weight_ratio) ==
    /\ IF products = <<>>
       THEN /\ candidates' = <<>>
            /\ UNCHANGED products
       ELSE \E r \in {find_applicable_shipping_rules(products, shipping_rules,
                                                     destination_input,
                                                     volume_weight_ratio)} :
                /\ products' = r.products
                /\ candidates' = r.result
    /\ selection_text_state' = None
    /\ UNCHANGED <<destination_input, shipping_rules, ioss_sheet, source_ioss_rules,
                   ioss_rules, history, fee_rule, fee_log, match_log, tax_log,
                   orders, invoice_log, loaderVars>>

\* show_selection (main.py 89-110): None for no id, else the item of the
\* first id
ShowSelection(selected_ids) ==
    /\ selection_text_state' = IF selected_ids = <<>>
                               THEN None
                               ELSE Some(candidates[selected_ids[1]])
    /\ UNCHANGED <<products, destination_input, shipping_rules, ioss_sheet,
                   source_ioss_rules, ioss_rules, candidates, history, fee_rule,
                   fee_log, match_log, tax_log, orders, invoice_log, loaderVars>>

\* check_pricing (main.py 142-177) with a destination and a valid exchange
\* rate: a message without products or without a rule, else
\* calculate_totals on the stored products with the stored rule
CheckPricing ==
    /\ products /= <<>>
    /\ selection_text_state /= None
    /\ CalculateTotals(selection_text_state)

InitUI ==
    /\ products = <<>>
    /\ destination_input = "germany"
    /\ shipping_rules = ShippingTable
    /\ ioss_sheet = IossSheetRates
    /\ source_ioss_rules = None
    /\ ioss_rules = None
    /\ candidates = <<>>
    /\ history = <<>>
    /\ fee_rule = EmptyDict
    /\ fee_log = <<>>
    /\ match_log = <<>>
    /\ tax_log = <<>>
    /\ orders = <<>>
    /\ invoice_log = <<>>
    /\ selection_text_state = None
    /\ LoaderUntouched

NextUI ==
    \/ \E updated_products \in UIProductLists \cup {<<>>} : LoadProducts(updated_products)
    \/ \E ratio \in VolumeWeightRatios : LoadShippingRules(ratio)
    \/ \E selected_ids \in SelectedIds(candidates) : ShowSelection(selected_ids)
    \/ CheckPricing

\* the four handlers in any order
SpecUI == InitUI /\ [][NextUI]_vars

---------------------------------------------------------------------------
(* Properties of calculate_totals, over the calls recorded in history.     *)

Calls == {history[i] : i \in 1..Len(history)}

\* the call was made with None or with an empty dict as its rule
CalledWithoutRule(h) == h.rule = None \/ DOMAIN h.rule[1] = {}

\* C1: calculate_totals called with a non-empty item list and no selected
\* rule (None or an empty dict) raises ValueError, returns no
\* CalculationResult and leaves every item as it was.
C1_NoRuleIsValidationError ==
    \A h \in Calls :
        (h.before /= <<>> /\ CalledWithoutRule(h))
            => /\ h.status = "ValueError"
               /\ h.result = None
               /\ h.after = h.before

\* C1 happens: a list with an item that has no total yet was priced with
\* None, and another call was made with the empty dict.
C1_Witness ==
    /\ \E h \in Calls :
          /\ h.rule = None
          /\ \E i \in 1..Len(h.before) :
                h.before[i].total = Zero /\ RLt(Zero, h.before[i].price)
          /\ h.status = "ValueError"
    /\ \E h \in Calls :
          /\ h.before /= <<>>
          /\ h.rule /= None
          /\ DOMAIN h.rule[1] = {}
          /\ h.status = "ValueError"

\* C2: calculate_totals called with an empty item list returns the
\* zero-value result (no items, total_amount 0, tax 0, empty rule_info and
\* tax_info) and raises nothing, whether or not a rule was selected.
C2_EmptyListIsZeroResult ==
    \A h \in Calls :
        h.before = <<>>
            => /\ h.status = "ok"
               /\ h.result /= None
               /\ h.result[1].products = <<>>
               /\ h.result[1].total_amount = Zero
               /\ h.result[1].ioss_taxes = Zero
               /\ DOMAIN h.rule_info = {}
               /\ DOMAIN h.ioss_info = {}

\* C2 happens: the empty list was priced once with no rule and once with
\* a full rule.
C2_Witness ==
    /\ \E h \in Calls : h.before = <<>> /\ h.rule = None /\ h.status = "ok"
    /\ \E h \in Calls :
          /\ h.before = <<>>
          /\ h.rule /= None
          /\ FeeFields \cup DeliveryFields \cup required_fields \subseteq DOMAIN h.rule[1]
          /\ h.status = "ok"

\* C3: calculate_totals called with non-empty items and a non-empty rule
\* that lacks a field pricing requires (shipping_company, or a field the
\* fee computation reads, such as first_weight or country) raises
\* ValueError and no other exception, and modifies no item.
C3_MissingFieldIsValidationError ==
    \A h \in Calls :
        (/\ h.before /= <<>>
         /\ ~CalledWithoutRule(h)
         /\ ~(required_fields \cup FeeFields \cup DeliveryFields
                \subseteq DOMAIN h.rule[1]))
            => h.status = "ValueError" /\ h.after = h.before

---------------------------------------------------------------------------
(* Properties of the tiered fee, over the calls recorded in fee_log under  *)
(* SpecFee: every call is made with fee_rule, with or without a weight.    *)

FeeCalls == {fee_log[i] : i \in 1..Len(fee_log)}

\* the weight a logged call was to charge: the one it was given, else the
\* 2 x 1000 g of the item list of SpecFee
CallWeight(e) ==
    IF "total_weight" \in DOMAIN e.rule THEN e.rule["total_weight"] ELSE R(2000)

\* the number k >= 1 of whole units that covers the excess:
\* (k - 1) * unit < excess <= k * unit
UnitsCovering(excess, unit) ==
    CHOOSE k \in 1..(MaxWeightSteps + 2) :
        /\ RLe(excess, RMul(R(k), unit))
        /\ RLt(RMul(R(k - 1), unit), excess)

\* C4: for a tiered rule the fee is first_weight_fee + registration_fee
\* when weight <= first_weight, and otherwise first_weight_fee +
\* ceil((weight - first_weight) / additional_weight) *
\* additional_weight_price + registration_fee, so that any excess costs at
\* least one whole unit; 2 x 1000 g under first_weight 1000, fee 15, unit
\* 500 at 5, registration 2 costs 27.
C4_TieredFeeFormula ==
    \A e \in FeeCalls :
        LET w   == CallWeight(e)
            fw  == fee_rule["first_weight"]
            fwf == fee_rule["first_weight_fee"]
            aw  == fee_rule["additional_weight"]
            awp == fee_rule["additional_weight_price"]
            reg == fee_rule["registration_fee"]
        IN  /\ RLe(w, fw) => e.status = "ok" /\ e.fee = RAdd(fwf, reg)
            /\ (~RLe(w, fw) /\ RLt(Zero, aw))
                  => /\ e.status = "ok"
                     /\ e.fee = RAdd(RAdd(fwf, RMul(R(UnitsCovering(RSub(w, fw), aw)),
                                                    awp)),
                                     reg)
            /\ (/\ fee_rule = Tariff(1000, 15, 500, 5, 2)
                /\ "total_weight" \notin DOMAIN e.rule)
                  => e.fee = R(27)

\* C4 happens: half a gram above the first weight was charged one whole
\* unit, and the 2 x 1000 g list was charged 27.
C4_Witness ==
    /\ fee_rule = Tariff(1000, 15, 500, 5, 2)
    /\ \E e \in FeeCalls :
          /\ "total_weight" \in DOMAIN e.rule
          /\ e.rule["total_weight"] = Norm(2001, 2)
          /\ e.status = "ok"
          /\ e.fee = R(22)
    /\ \E e \in FeeCalls :
          "total_weight" \notin DOMAIN e.rule /\ e.status = "ok" /\ e.fee = R(27)

\* C5: for a tiered rule with additional_weight > 0 and
\* additional_weight_price >= 0 the fee never decreases as the weight
\* grows, and at weight = first_weight it is first_weight_fee +
\* registration_fee.
C5_FeeMonotonicInWeight ==
    (RLt(Zero, fee_rule["additional_weight"])
     /\ RLe(Zero, fee_rule["additional_weight_price"]))
        => /\ \A e1, e2 \in FeeCalls :
                RLe(CallWeight(e1), CallWeight(e2))
                    => /\ e1.status = "ok"
                       /\ e2.status = "ok"
                       /\ RLe(e1.fee, e2.fee)
           /\ \A e \in FeeCalls :
                CallWeight(e) = fee_rule["first_weight"]
                    => e.fee = RAdd(fee_rule["first_weight_fee"],
                                    fee_rule["registration_fee"])

\* C5 happens: under a rule with a positive unit, unit price and
\* registration fee, the first weight itself and a greater weight were
\* charged, the greater one more.
C5_Witness ==
    /\ RLt(Zero, fee_rule["additional_weight"])
    /\ RLt(Zero, fee_rule["additional_weight_price"])
    /\ RLt(Zero, fee_rule["registration_fee"])
    /\ \E e1, e2 \in FeeCalls :
          /\ CallWeight(e1) = fee_rule["first_weight"]
          /\ RLt(CallWeight(e1), CallWeight(e2))
          /\ e1.status = "ok"
          /\ e2.status = "ok"
          /\ RLt(e1.fee, e2.fee)

---------------------------------------------------------------------------
(* Reusing the weight of a candidate against re-deriving it, over the      *)
(* calls recorded in fee_log under SpecRules.                              *)

\* C6: calculate_shipping_fee given a rule summary returned by
\* find_applicable_shipping_rules (with its total_weight) returns the same
\* fee as given the same rule without total_weight, also when an item's
\* volumetric weight exceeds its actual weight.
C6_ReusedWeightGivesSameFee ==
    \A e1, e2 \in FeeCalls :
        (/\ "total_weight" \in DOMAIN e1.rule
         /\ "total_weight" \notin DOMAIN e2.rule
         /\ e2.rule = Without(e1.rule, "total_weight"))
            => e1.status = e2.status /\ e1.fee = e2.fee

---------------------------------------------------------------------------
(* Properties of the amounts calculate_totals returns and writes.          *)

\* the calls that returned a result for a non-empty list
PricedCalls == {h \in Calls : h.status = "ok" /\ h.before /= <<>>}

LineTotals(prods) == [i \in 1..Len(prods) |-> prods[i].total]

\* sum of price * quantity over the items as they were passed in
ProductSubtotal(prods) ==
    RSum([i \in 1..Len(prods) |-> RMul(prods[i].price, prods[i].quantity)])

\* C7: after calculate_totals on a non-empty list (items with a total
\* filled in before, or with a price that is not positive, included) the
\* line totals add up to the sum of price * quantity plus the total
\* shipping fee plus the total tax.
C7_LineTotalsReconcile ==
    \A h \in PricedCalls :
        RSum(LineTotals(h.after))
            = RAdd(RAdd(ProductSubtotal(h.before), h.shipping_fee), h.tax)

\* C8: the total_amount of the returned CalculationResult equals the sum
\* of the totals of the line items of that result.
C8_TotalAmountIsSumOfLineTotals ==
    \A h \in Calls :
        h.status = "ok"
            => h.result[1].total_amount = RSum(LineTotals(h.result[1].products))

\* C8 happens: two items were priced with a positive fee and a positive
\* tax that do not divide evenly into whole shares.
C8_Witness ==
    \E h \in PricedCalls :
        /\ Len(h.result[1].products) = 2
        /\ RLt(Zero, h.shipping_fee)
        /\ RLt(Zero, h.result[1].ioss_taxes)
        /\ h.result[1].products[1].shipping_fee.d /= 1
        /\ RLt(Zero, h.result[1].total_amount)

\* C9: after calculate_totals on N >= 1 items every item's shipping_fee is
\* total_shipping_fee / N and every item's ioss_tax is total_tax / N,
\* whatever its quantity, weight or price, and the shares add up to the
\* total shipping fee and the total tax.
C9_EvenApportionment ==
    \A h \in PricedCalls :
        LET n == Len(h.after)
        IN  /\ \A i \in 1..n :
                  /\ RMul(R(n), h.after[i].shipping_fee) = h.shipping_fee
                  /\ RMul(R(n), h.after[i].ioss_tax) = h.result[1].ioss_taxes
            /\ RSum([i \in 1..n |-> h.after[i].shipping_fee]) = h.shipping_fee
            /\ RSum([i \in 1..n |-> h.after[i].ioss_tax]) = h.result[1].ioss_taxes

\* C9 happens: two items that differ in quantity, weight and price got
\* the same positive shares of a fee and of a tax.
C9_Witness ==
    \E h \in PricedCalls :
        /\ Len(h.after) = 2
        /\ h.after[1].quantity /= h.after[2].quantity
        /\ h.after[1].weight /= h.after[2].weight
        /\ h.after[1].price /= h.after[2].price
        /\ RLt(Zero, h.after[1].shipping_fee)
        /\ RLt(Zero, h.after[1].ioss_tax)
        /\ h.after[1].shipping_fee = h.after[2].shipping_fee
        /\ h.after[1].ioss_tax = h.after[2].ioss_tax

\* C10: a second calculate_totals on the same list with the same
\* destination and rule returns the same total_amount and the same line
\* totals as the first: the shares the first call wrote are not taken for
\* base subtotals.
C10_SecondCallSameTotals ==
    \A i, j \in 1..Len(history) :
        (/\ i < j
         /\ history[i].status = "ok"
         /\ history[j].status = "ok"
         /\ history[i].before /= <<>>
         /\ history[i].rule = history[j].rule)
            => /\ history[j].result[1].total_amount
                    = history[i].result[1].total_amount
               /\ LineTotals(history[j].result[1].products)
                    = LineTotals(history[i].result[1].products)

---------------------------------------------------------------------------
(* Properties of the IOSS tax, over the calls recorded in tax_log under    *)
(* SpecTax: every call is made on the list in products.                    *)

TaxCalls == {tax_log[i] : i \in 1..Len(tax_log)}

\* the items that carry a positive IOSS price
TaxedItems == SelectSeq(products, LAMBDA p : RLt(Zero, p.ioss_price))

\* the sum of ioss_price * quantity over those items only
TaxBase ==
    RSum([i \in 1..Len(TaxedItems) |->
            RMul(TaxedItems[i].ioss_price, TaxedItems[i].quantity)])

\* the calls that found a rule for their destination in the loaded table
CallsWithRule ==
    {e \in TaxCalls : /\ e.status = "ok"
                      /\ e.table_after /= None
                      /\ FirstIossRule(e.table_after[1], e.destination) /= None}

RuleOf(e) == FirstIossRule(e.table_after[1], e.destination)[1]

\* C11: the tax base is the sum of ioss_price * quantity over only the
\* items with ioss_price > 0; when a rule for the destination is found the
\* tax is base * vat_rate + base * service_rate, and tax_info reports the
\* two parts and the base.
C11_TaxIsBaseTimesRates ==
    \A e \in CallsWithRule :
        LET vat     == RMul(TaxBase, RuleOf(e).vat_rate)
            service == RMul(TaxBase, RuleOf(e).service_rate)
        IN  /\ e.tax = RAdd(vat, service)
            /\ DOMAIN e.ioss_info /= {}
            /\ e.ioss_info.vat_tax = vat
            /\ e.ioss_info.service_fee = service
            /\ e.ioss_info.total_ioss_price = TaxBase
            /\ e.ioss_info.total_ioss_tax = e.tax

\* C11 happens: a list with an item of negative IOSS price and an item of
\* quantity 2 was taxed under the German rule: 6 * 0.2 + 6 * 0.05.
C11_Witness ==
    /\ \E i \in 1..Len(products) : RLt(products[i].ioss_price, Zero)
    /\ \E i \in 1..Len(products) :
          RLt(Zero, products[i].ioss_price) /\ products[i].quantity = R(2)
    /\ \E e \in CallsWithRule :
          /\ e.destination = "germany"
          /\ e.tax = Norm(3, 2)
          /\ e.ioss_info.total_ioss_price = R(6)

\* C12: when the tax base is not positive, calculate_total_ioss_tax
\* returns zero tax and looks no rule up: the fetcher's table and the
\* source's list are as they were, so the lazy load has not run.
C12_NoLookupWithoutBase ==
    \A e \in TaxCalls :
        RLe(TaxBase, Zero)
            => /\ e.status = "ok"
               /\ e.tax = Zero
               /\ DOMAIN e.ioss_info = {}
               /\ e.table_before = None
               /\ e.table_after = None
               /\ e.source_before = None
               /\ e.source_after = None

\* C12 happens: two calls were made on a non-empty list none of whose
\* items has a positive IOSS price, and the sheet is still unread.
C12_Witness ==
    /\ products /= <<>>
    /\ \E i \in 1..Len(products) : RLt(products[i].ioss_price, Zero)
    /\ RLe(TaxBase, Zero)
    /\ Len(tax_log) = 2
    /\ tax_log[2].tax = Zero
    /\ ioss_rules = None
    /\ source_ioss_rules = None

---------------------------------------------------------------------------
(* A destination without an IOSS rule, over the calls recorded in history  *)
(* under Spec.                                                             *)

\* the calls on a non-empty list with a rule the fee can be computed from
CallsWithUsableRule ==
    {h \in Calls : /\ h.before /= <<>>
                   /\ ~CalledWithoutRule(h)
                   /\ required_fields \subseteq DOMAIN h.rule[1]
                   /\ calculate_shipping_fee(h.before, h.rule[1]).status = "ok"}

\* the calls after which the table is loaded and has no rule of the
\* destination
CallsWithoutIossRule ==
    {h \in CallsWithUsableRule :
        /\ h.table /= None
        /\ \A i \in 1..Len(h.table[1]) :
              Lower(h.table[1][i].country) /= Lower(destination_input)}

\* the base subtotal of the items passed in: price * quantity, or the
\* total an item came with
BaseSubtotal(prods) == RSum([i \in 1..Len(prods) |-> BaseTotal(prods[i])])

\* C13: when the loaded IOSS table has no rule of the destination country
\* (compared without regard to case) the tax is 0 and calculate_totals
\* raises nothing and returns a full CalculationResult whose total_amount
\* is the product subtotal plus the shipping fee.
C13_NoIossRuleIsZeroTax ==
    \A h \in CallsWithoutIossRule :
        /\ h.status = "ok"
        /\ h.result /= None
        /\ h.tax = Zero
        /\ h.result[1].ioss_taxes = Zero
        /\ DOMAIN h.ioss_info = {}
        /\ Len(h.result[1].products) = Len(h.before)
        /\ h.result[1].total_amount = RAdd(BaseSubtotal(h.before), h.shipping_fee)

\* C13 happens: an item with a positive IOSS price was priced for France
\* with a positive fee, the sheet was read and holds rules of other
\* countries only.
C13_Witness ==
    \E h \in CallsWithoutIossRule :
        /\ destination_input = "France"
        /\ \E i \in 1..Len(h.before) : RLt(Zero, h.before[i].ioss_price)
        /\ h.table[1] /= <<>>
        /\ RLt(Zero, h.shipping_fee)
        /\ h.status = "ok"
        /\ RLt(h.shipping_fee, h.result[1].total_amount)

---------------------------------------------------------------------------
(* The rates as loaded from the sheet, under SpecTax.                      *)

\* the first row of the sheet that loads and is of the country
SheetRowOf(country) ==
    LET valid == SelectSeq(ioss_sheet, RowIsValid)
        hits  == {i \in 1..Len(valid) : Lower(valid[i].country) = Lower(country)}
    IN  valid[CHOOSE i \in hits : \A j \in hits : i <= j]

\* C14: a rate cell given as a percent value ("22%") is held in the
\* loaded IossRule as the number divided by 100, so that the tax on a base
\* B is B * 0.22 and not B * 22.
C14_PercentCellIsFraction ==
    \A e \in CallsWithRule :
        SheetRowOf(e.destination).vat_rate.kind = "percent"
            => LET fraction == RDiv(SheetRowOf(e.destination).vat_rate.value, R(100))
               IN  /\ RuleOf(e).vat_rate = fraction
                   /\ e.ioss_info.vat_rate = fraction
                   /\ e.ioss_info.vat_tax = RMul(TaxBase, fraction)

---------------------------------------------------------------------------
(* Properties of rule matching, over the calls recorded in match_log       *)
(* under SpecMatch.                                                        *)

MatchCalls == {match_log[i] : i \in 1..Len(match_log)}

\* the tags of the items of a list, whatever their order and quantities
TagsOf(prods) == {prods[i].attribute : i \in 1..Len(prods)}

\* food > pure electric > special > electric > general
HighestPriorityTag(tags) ==
    IF "food" \in tags THEN "food"
    ELSE IF "pure_electric" \in tags THEN "pure_electric"
    ELSE IF "special" \in tags THEN "special"
    ELSE IF "electric" \in tags THEN "electric"
    ELSE "general"

\* C15: find_applicable_shipping_rules chooses one attribute for the whole
\* shipment: the first tag of food > pure electric > special > electric >
\* general carried by at least one item, general when no item carries a
\* known tag, whatever the order and the quantities of the items; every
\* rule it returns is of that attribute.
C15_AttributeByPriority ==
    \A e \in MatchCalls :
        /\ e.attribute = HighestPriorityTag(TagsOf(e.before))
        /\ \A k \in 1..Len(e.result) : e.result[k].attribute = e.attribute

\* C15 happens: a list with one electric item first and three pieces of
\* food second was matched as food, and a food rule was returned.
C15_Witness ==
    \E e \in MatchCalls :
        /\ Len(e.before) = 2
        /\ e.before[1].attribute = "electric"
        /\ e.before[2].attribute = "food"
        /\ e.attribute = "food"
        /\ e.result /= <<>>
        /\ e.result[1].shipping_company = "FoodEx"

\* the places in the table of the rules of the destination and the
\* attribute whose band holds the weight: weight_min < weight <= weight_max
RulesInBand(e) ==
    {i \in 1..Len(shipping_rules) :
        /\ Lower(shipping_rules[i].country) = Lower(e.destination)
        /\ Lower(shipping_rules[i].attribute) = Lower(e.attribute)
        /\ RLt(shipping_rules[i].weight_min, e.total_weight)
        /\ RLe(e.total_weight, shipping_rules[i].weight_max)}

\* C16: find_applicable_shipping_rules returns exactly the rules of the
\* table whose country is the destination and whose attribute is the
\* chosen one (both without regard to case) and whose band satisfies
\* weight_min < weight <= weight_max: all of them, each once, and the
\* empty list when there are none.
C16_ExactlyTheRulesInBand ==
    \A e \in MatchCalls :
        /\ Len(e.result) = Cardinality(RulesInBand(e))
        /\ {e.result[k].shipping_company : k \in 1..Len(e.result)}
              = {shipping_rules[i].shipping_company : i \in RulesInBand(e)}
        /\ \A k \in 1..Len(e.result) : e.result[k].id = k - 1

\* C16 happens: a shipment of 2000 g got the rule whose band ends at 2000
\* and the rule written GERMANY, and not the rule whose band starts at
\* 2000; a call for a country without rules returned the empty list.
C16_Witness ==
    /\ \E e \in MatchCalls :
          /\ e.destination = "germany"
          /\ e.total_weight = R(2000)
          /\ {e.result[k].shipping_company : k \in 1..Len(e.result)}
                = {"YunExpress", "DHL", "GLS"}
    /\ \E e \in MatchCalls : e.destination = "Spain" /\ e.result = <<>>

\* the volumetric weight of an item: quantity * (l * w * h) / divisor when
\* all three dimensions are there, else 0
Volumetric(p, divisor) ==
    IF p.length /= Zero /\ p.width /= Zero /\ p.height /= Zero
    THEN RDiv(RMul(p.quantity, RMul(RMul(p.length, p.width), p.height)), divisor)
    ELSE Zero

\* the weight an item is charged for
Chargeable(p, divisor) ==
    LET actual == RMul(p.quantity, p.weight)
    IN  IF RLt(actual, Volumetric(p, divisor)) THEN Volumetric(p, divisor) ELSE actual

\* C17: each item's actual weight is quantity * weight, its volumetric
\* weight is quantity * (l * w * h) / divisor when all three dimensions
\* are non-zero and 0 otherwise, its chargeable weight is the greater of
\* the two, and the total_weight of every returned candidate is the sum of
\* the chargeable weights.
C17_ShipmentWeightIsSumOfChargeable ==
    \A e \in MatchCalls :
        LET n   == Len(e.before)
            sum == RSum([i \in 1..n |-> Chargeable(e.before[i], e.volume_weight_ratio)])
        IN  /\ Len(e.after) = n
            /\ \A i \in 1..n :
                  /\ e.after[i].actual_weight
                        = RMul(e.before[i].quantity, e.before[i].weight)
                  /\ e.after[i].volume_weight
                        = Volumetric(e.before[i], e.volume_weight_ratio)
            /\ e.total_weight = sum
            /\ \A k \in 1..Len(e.result) : e.result[k].total_weight = sum

\* C17 happens: a bulky electric item (100 g, 200 g by volume at 5000)
\* and an item without a height (300 g) were matched, and the rule
\* returned carries 500 g.
C17_Witness ==
    \E e \in MatchCalls :
        /\ e.volume_weight_ratio = R(5000)
        /\ Len(e.after) = 2
        /\ e.after[1].actual_weight = R(100)
        /\ e.after[1].volume_weight = R(200)
        /\ e.after[2].length /= Zero
        /\ e.after[2].height = Zero
        /\ e.after[2].volume_weight = Zero
        /\ e.result /= <<>>
        /\ e.result[1].total_weight = R(500)

---------------------------------------------------------------------------
(* The two tariff shapes and the delivery estimate, over the calls         *)
(* recorded in fee_log under SpecTariffs.                                  *)

\* C18: for a rule populated with min_charge_weight and rate_per_unit and
\* no first-weight fields, calculate_shipping_fee returns
\* max(weight, min_charge_weight) * rate_per_unit + registration_fee.
C18_RateTimesWeightFee ==
    \A e \in FeeCalls :
        ({"min_charge_weight", "rate_per_unit"} \subseteq DOMAIN fee_rule
         /\ "first_weight" \notin DOMAIN fee_rule)
            => /\ e.status = "ok"
               /\ e.fee = RAdd(RMul(RMax(CallWeight(e), fee_rule["min_charge_weight"]),
                                    fee_rule["rate_per_unit"]),
                               fee_rule["registration_fee"])

\* C19: the delivery estimate in rule_info is the range "min-max" followed
\* by the day sign exactly when both bounds are positive, and the empty
\* string when either bound is zero or negative.
C19_DeliveryEstimate ==
    \A e \in FeeCalls :
        e.status = "ok"
            => LET min_days == fee_rule["min_delivery_days"]
                   max_days == fee_rule["max_delivery_days"]
                   estimate == e.rule_info.estimated_delivery_time
               IN  /\ (min_days > 0 /\ max_days > 0)
                          => estimate = <<min_days, "-", max_days, "days">>
                   /\ (min_days <= 0 \/ max_days <= 0) => estimate = <<>>
                   /\ e.rule_info.min_delivery_days = min_days
                   /\ e.rule_info.max_delivery_days = max_days

\* C19 happens: a fee was computed under a rule with bounds 3 and 7 and
\* the estimate is the range 3-7.
C19_Witness ==
    /\ fee_rule = DeliveryTariff(3, 7)
    /\ \E e \in FeeCalls :
          /\ e.status = "ok"
          /\ e.rule_info.estimated_delivery_time = <<3, "-", 7, "days">>

---------------------------------------------------------------------------
(* The roll-up of order lines into invoices, over the runs recorded in     *)
(* invoice_log under SpecOrders.                                           *)

InvoiceRuns == {invoice_log[i] : i \in 1..Len(invoice_log)}

\* the distinct order numbers of the list, compared as written
OrderNumbers == {orders[i].order_number : i \in 1..Len(orders)}

\* the cost of one line: its uniform cost price when it has a positive
\* one, else the price of its SKU, times its quantity
LineCost(o) ==
    IF "uniform_cost_price" \in DOMAIN o /\ RLt(Zero, o["uniform_cost_price"])
    THEN RMul(o["uniform_cost_price"], R(o.quantity))
    ELSE IF o.sku \in DOMAIN ProductData
    THEN RMul(ProductData[o.sku].price, R(o.quantity))
    ELSE Zero

\* the sum of the costs of the lines of one order number, wherever they
\* are in the list
OrderCost(n) ==
    LET lines == SelectSeq(orders, LAMBDA o : o.order_number = n)
    IN  RSum([i \in 1..Len(lines) |-> LineCost(lines[i])])

\* C20: for any order list, calculate_order_totals yields one product
\* total per distinct order_number, the sum of the costs of that order's
\* lines, and create_invoices yields exactly one Invoice per distinct
\* order_number, carrying that product total.
C20_OneInvoicePerOrderNumber ==
    \A e \in InvoiceRuns :
        /\ e.totals_status = "ok"
        /\ DOMAIN e.order_totals = OrderNumbers
        /\ \A n \in OrderNumbers : e.order_totals[n] = OrderCost(n)
        /\ e.status = "ok"
        /\ Len(e.invoices) = Cardinality(OrderNumbers)
        /\ \A n \in OrderNumbers :
              \E k \in 1..Len(e.invoices) :
                  /\ e.invoices[k].order_number = n
                  /\ e.invoices[k].product_cost = OrderCost(n)

\* the runs on a non-empty list all of whose lines carry a
\* uniform_cost_price
RunsOnCostedLines ==
    {e \in InvoiceRuns :
        /\ orders /= <<>>
        /\ \A i \in 1..Len(orders) : "uniform_cost_price" \in DOMAIN orders[i]}

\* the lines of one order number, in list order
LinesOf(n) == SelectSeq(orders, LAMBDA o : o.order_number = n)

LoadedIossTable == load_ioss_rules(ioss_sheet, None).rules

\* the tax of a product total under the rule of a country: total * vat_rate
\* + total * service_rate, 0 without a rule or a positive total
TaxUnderRuleOf(country, total) ==
    LET rule == FirstIossRule(LoadedIossTable, country)
    IN  IF rule = None \/ RLe(total, Zero)
        THEN Zero
        ELSE RAdd(RMul(total, rule[1].vat_rate), RMul(total, rule[1].service_rate))

\* C22: the tax of each order group is computed with the IOSS rule of the
\* country of the group's own first line, also when other groups of the
\* same call are of another country. Stated here by its consequence that
\* does not depend on rounding: a group of a country without a rule pays
\* no tax, a group with a positive total of a country with a rule pays some.
C22_TaxByGroupCountry ==
    \A e \in RunsOnCostedLines :
        e.totals_status = "ok"
            => \A n \in OrderNumbers :
                  LET country == LinesOf(n)[1].country
                      rule    == FirstIossRule(LoadedIossTable, country)
                  IN  /\ rule = None => e.order_ioss_totals[n] = Zero
                      /\ (rule /= None /\ RLt(Zero, e.order_totals[n]))
                            => RLt(Zero, e.order_ioss_totals[n])

\* C23: for a group with product total T > 0 whose country has a rule, the
\* tax total is T * vat_rate + T * service_rate, the value
\* calculate_total_ioss_tax returns for a base of T; for T <= 0 or without
\* a rule it is 0.
C23_GroupTaxIsItemTaxFormula ==
    \A e \in RunsOnCostedLines :
        (/\ e.totals_status = "ok"
         /\ \A i \in 1..Len(orders) : orders[i].country = orders[1].country)
            => \A n \in OrderNumbers :
                  e.order_ioss_totals[n]
                     = TaxUnderRuleOf(orders[1].country, e.order_totals[n])

\* C24: every Invoice create_invoices returns has a shipping_cost that is
\* 0 when its order number is not in the shipping-cost map or the cost
\* there is negative and the cost there otherwise, a redelivery_cost of 0
\* and total_charges = product_cost + shipping_cost + tax cost +
\* redelivery_cost; a missing or negative shipping cost raises nothing.
C24_InvoiceCharges ==
    \A e \in RunsOnCostedLines :
        e.totals_status = "ok"
            => /\ e.status = "ok"
               /\ Len(e.invoices) > 0
               /\ \A k \in 1..Len(e.invoices) :
                     LET v == e.invoices[k]
                         m == e.shipping_cost_map
                     IN  /\ RLe(Zero, v.shipping_cost)
                         /\ v.order_number \notin DOMAIN m => v.shipping_cost = Zero
                         /\ (v.order_number \in DOMAIN m /\ RLt(m[v.order_number], Zero))
                               => v.shipping_cost = Zero
                         /\ (v.order_number \in DOMAIN m /\ RLe(Zero, m[v.order_number]))
                               => v.shipping_cost = m[v.order_number]
                         /\ v.redelivery_cost = Zero
                         /\ v.total_charges
                               = RAdd(RAdd(RAdd(v.product_cost, v.shipping_cost),
                                           v.ioss_cost),
                                      v.redelivery_cost)

---------------------------------------------------------------------------
(* Properties of the rule loader and the class caches, over the            *)
(* constructions recorded under SpecLoad and SpecRace.                     *)

\* the sheet gives load_rules no rule: the fetch fails, there is no
\* record, a column is missing, or no record gives a rule
YieldsNoValidRules(sheet) ==
    \/ sheet = "unreachable"
    \/ sheet = <<>>
    \/ ~(RequiredColumns \subseteq DOMAIN sheet[1])
    \/ RowRules(sheet) = <<>>

\* C25: a failure to load the shipping rules reaches the caller on every
\* attempt: each construction of a Calculator made while the sheet yields
\* no valid rule fails with the load error, and no source is left holding
\* an empty rule list that a later load_rules call would return.
C25_LoadFailureSurfacedEveryTime ==
    /\ \A i \in 1..Len(constructions) :
            YieldsNoValidRules(shipping_sheet)
            => constructions[i].status \in {"ValueError", "APIError"}
    /\ \A k \in 1..Len(sources) : sources[k].shipping_rules /= Some(<<>>)

\* the threads inside the fetching part of load_rules
Loading == {t \in Threads : threads[t].pc \in {"fetch", "parse"}}

\* C26: when two threads construct a Calculator at once while the class
\* holds no rule list, the first load is made once: no two threads are
\* inside the loader together, one data source object is created, and the
\* instances made hold the same rule list.
C26_SingleInitialization ==
    /\ Cardinality(Loading) <= 1
    /\ Len(sources) <= 1
    /\ \A i, j \in 1..Len(constructions) :
            constructions[i].status = "ok" /\ constructions[j].status = "ok"
            => constructions[i].shipping_rules = constructions[j].shipping_rules

\* the constructions that gave an instance
Instances == {i \in 1..Len(constructions) : constructions[i].status = "ok"}

\* C27: once a Calculator has been constructed, every later construction
\* takes the rule list the class holds without calling the loader or
\* fetching the sheet again, every instance holds that same list, and no
\* call of find_applicable_shipping_rules, calculate_shipping_fee or
\* calculate_totals changes it.
C27_CachedTableReused ==
    /\ [](\A i \in Instances :
            /\ Some(shipping_rules) = shipping_rules_cache
            /\ constructions[i].shipping_rules = shipping_rules_cache)
    /\ [][Constructed => /\ remote_loads' = remote_loads
                         /\ load_calls' = load_calls
                         /\ shipping_rules_cache' = shipping_rules_cache
                         /\ shipping_rules' = shipping_rules]_vars

\* C27 happens: two more Calculators were constructed after the first one,
\* and each engine operation was called on the instance.
C27_Witness ==
    /\ Cardinality(Instances) >= 2
    /\ match_log /= <<>>
    /\ fee_log /= <<>>
    /\ history /= <<>>
    /\ load_calls = 2
    /\ remote_loads = 1

---------------------------------------------------------------------------
(* What rule matching and the fee function write on the items, over the    *)
(* steps of SpecRules.                                                     *)

\* the attributes of an item that find_applicable_shipping_rules may write
WeightFields == {"actual_weight", "volume_weight"}

\* C28: find_applicable_shipping_rules writes only actual_weight and
\* volume_weight on each item and calculate_shipping_fee writes nothing on
\* the items: across either call the list keeps its length and every item
\* keeps its price, quantity, weight, attribute, shipping_fee, total and
\* every other attribute.
C28_OnlyWeightsWritten ==
    [][/\ Len(products') = Len(products)
       /\ \A i \in 1..Len(products) :
            \A f \in (DOMAIN products[i]) \ WeightFields :
                products'[i][f] = products[i][f]
       /\ fee_log' /= fee_log => products' = products]_vars

\* C28 happens: rule matching wrote both weights on an item with
\* dimensions, and a fee was computed on the list afterwards.
C28_Witness ==
    /\ \E i \in 1..Len(products) :
            /\ products[i].actual_weight /= Zero
            /\ products[i].volume_weight /= Zero
            /\ products[i].price /= Zero
    /\ \E k \in 1..Len(fee_log) : fee_log[k].status = "ok"

---------------------------------------------------------------------------
(* A rule without a unit of additional weight, over the calls recorded in  *)
(* fee_log and history under SpecZeroUnit.                                 *)

\* C29: calculate_shipping_fee with a rule whose additional_weight is 0
\* and a weight above first_weight returns no fee but raises
\* ZeroDivisionError, and calculate_totals lets the error through with
\* every item as it was; with a weight of at most first_weight the same
\* rule gives first_weight_fee + registration_fee.
C29_ZeroUnitDivides ==
    /\ fee_rule["additional_weight"] = Zero
    /\ \A e \in FeeCalls :
            IF RLe(e.rule["total_weight"], fee_rule["first_weight"])
            THEN /\ e.status = "ok"
                 /\ e.fee = RAdd(fee_rule["first_weight_fee"],
                                 fee_rule["registration_fee"])
            ELSE /\ e.status = "ZeroDivisionError"
                 /\ e.rule_info = EmptyDict
    /\ \A h \in Calls :
            IF RLe(h.rule[1]["total_weight"], fee_rule["first_weight"])
            THEN /\ h.status = "ok"
                 /\ h.shipping_fee = RAdd(fee_rule["first_weight_fee"],
                                          fee_rule["registration_fee"])
            ELSE /\ h.status = "ZeroDivisionError"
                 /\ h.result = None
                 /\ h.after = h.before

\* C29 happens: under a rule with a unit price of 5 and no unit, one fee
\* call was made at the first weight and one half a gram above it, and
\* calculate_totals was called 250 g above it on an item without a total.
C29_Witness ==
    /\ fee_rule = Tariff(1000, 15, 0, 5, 2)
    /\ \E e \in FeeCalls : e.rule["total_weight"] = R(1000) /\ e.fee = R(17)
    /\ \E e \in FeeCalls : /\ e.rule["total_weight"] = RAdd(R(1000), Norm(1, 2))
                           /\ e.status = "ZeroDivisionError"
    /\ \E h \in Calls : /\ h.rule[1]["total_weight"] = R(1250)
                        /\ h.status = "ZeroDivisionError"
                        /\ h.before = <<ItemA>>
                        /\ products = <<ItemA>>

---------------------------------------------------------------------------
(* The rule a price is computed with, over the calls recorded in history   *)
(* under SpecUI.                                                           *)

=============================================================================
